---- MODULE Spec2Model ----
(***************************************************************************)
(* A model of scanner's job engine (scanner/engine.cpp): the work planner  *)
(* of run_job, the master/worker work distribution between the nodes'      *)
(* driver threads, the load / evaluate / save worker threads connected by  *)
(* blocking queues, and the driver's shutdown sequence.                    *)
(*                                                                         *)
(* C++ vectors are modelled as sequences; a C++ index i is position i + 1  *)
(* of the sequence (see At).                                               *)
(***************************************************************************)
EXTENDS Integers, Sequences, FiniteSets, TLC

\* ------------------------------------------------------------------------
\* Bounds of the model
\* ------------------------------------------------------------------------
\* planner runs: the number of videos, frames per video, WORK_ITEM_SIZE
MaxVideos == 2
MaxFrames == 5
MaxW == 3
\* cluster runs: frames of the one video (WORK_ITEM_SIZE is 1 there, so this
\* is also the number of planned work items)
ClusterFrames == 3
\* single-node runs: frames of the one video
NodeFrames == 2
\* the largest TASKS_IN_QUEUE_PER_PU
MaxTasks == 2
\* capacity of every Queue<T>
QueueCap == 1
\* planner runs: the largest stride of Strided
MaxStride == 3
\* planner runs of Gather and SequenceGather: the number of videos
SampledVideos == 2
\* planner runs of Gather: frames of each video, length of a frame list
PointFrames == 2
MaxPoints == 3
\* planner runs of SequenceGather: frames of each video, intervals of a
\* SequenceSamples
SeqFrames == 3
MaxIntervals == 2
\* the observed jobs: frames of a video, and the largest evaluator warmup
DataFrames == 3
MaxWarmup == 1
\* the videos with keyframes: frames of a video, and the largest number of
\* bytes between two keyframes
LoadFrames == 4
MaxGopBytes == 2
\* cluster runs: the numbers of nodes (MPI_Comm_size)
ClusterSizes == {1, 2}
\* single-node runs: the values of LOAD_WORKERS_PER_NODE, PUS_PER_NODE and
\* SAVE_WORKERS_PER_NODE, and the numbers of factory groups of a chain
WorkerCounts == {1, 2}
GroupCounts == {1, 2, 3}

\* ------------------------------------------------------------------------
\* State
\* ------------------------------------------------------------------------
VARIABLES
  \* process-wide configuration, set once before run_job and never changed
  num_nodes,                \* MPI_Comm_size
  WORK_ITEM_SIZE,
  LOAD_WORKERS_PER_NODE,
  PUS_PER_NODE,
  SAVE_WORKERS_PER_NODE,
  TASKS_IN_QUEUE_PER_PU,
  factory_groups_per_chain,
  sampling,                 \* pipeline_description.sampling
  video_frames,             \* video_metadata[i].frames(), i = 0 .. videos-1
  video_metadata,           \* keyframe positions, byte offsets, file size
  pipeline_description,     \* stride, gather_points, gather_sequences
  warmup_size,              \* the largest warmup_size of the evaluators
  factory_groups,           \* the evaluators of each group of a chain
  evaluator_caps,           \* the evaluators of the pipeline, in chain order
  setup,                    \* how far run_job is in setting up the workers
  \* the planner of run_job: its loop position and the two arrays it builds
  plan,
  \* per node (rank): the driver thread of run_job
  pc,                       \* position of the driver
  drv_i,                    \* loop counter i / pu of the shutdown loops
  drv_fg,                   \* loop counter fg of the shutdown loops
  accepted_items,
  retired_items,
  next_work_item_to_allocate,  \* master only
  workers_done,                \* master only
  next_item,                   \* non-master: the reply being handled
  \* the database in storage
  job_registered,           \* db_metadata names the job, descriptor written
  \* per node: queues
  load_work,
  initial_eval_work,
  eval_work,                \* eval_work[n][pu][fg], fg = 0 .. G-2
  save_work,
  \* per node: worker threads
  load_thread,              \* load_thread[n][i]
  eval_thread,              \* eval_thread[n][pu][fg]
  save_thread,              \* save_thread[n][i]
  \* MPI messages in flight
  requests,                 \* ranks whose "more work" message is in flight
  replies,                  \* replies[n]: replies in flight to rank n
  \* history (not program state): what was issued, received, pushed
  issued,                   \* sequence of [item, to] in the order issued
  received,                 \* received[n]: replies rank n has received
  sentinels_pushed,         \* sentinels_pushed[n][queue id]
  \* observations (not program state), kept in the runs that set recording
  recording,
  tracing,                  \* whether stages is kept
  raw_new_calls,            \* number of `new u8[...]` of the load workers
  new_buffer_calls,         \* new_buffer_calls[<<device type, device id>>]
  delete_buffer_calls,      \* delete_buffer_calls[<<type, id>>]
  released,                 \* released[item]: the rows trimmed as warmup
  saved,                    \* saved[item]: the row lists written for it
  files,                    \* files[item]: the output files written for it
  stages,                   \* stages[item]: the workers that handled it
  configure_calls,          \* configure_calls[n][pu][fg]
  reset_calls,              \* reset_calls[n][pu][fg]
  batches,                  \* the batches the evaluate threads have cut
  evaluate_calls            \* the evaluate() calls made, with their devices

config == <<num_nodes, WORK_ITEM_SIZE, LOAD_WORKERS_PER_NODE, PUS_PER_NODE,
            SAVE_WORKERS_PER_NODE, TASKS_IN_QUEUE_PER_PU,
            factory_groups_per_chain, sampling, video_frames,
            video_metadata, pipeline_description, warmup_size,
            factory_groups, evaluator_caps, setup, recording, tracing>>

loops == <<drv_i, drv_fg>>

master == <<next_work_item_to_allocate, workers_done>>

database == <<job_registered>>

driver == <<pc, loops, accepted_items, retired_items, master, next_item>>

queues == <<load_work, initial_eval_work, eval_work, save_work>>

threads == <<load_thread, eval_thread, save_thread>>

mpi == <<requests, replies>>

history == <<issued, received, sentinels_pushed>>

observations == <<raw_new_calls, new_buffer_calls, delete_buffer_calls,
                  released, saved, files, stages, configure_calls,
                  reset_calls, batches, evaluate_calls>>

vars == <<config, database, plan, driver, queues, threads, mpi, history,
          observations>>

\* ------------------------------------------------------------------------
\* Helpers
\* ------------------------------------------------------------------------
\* element i (0-based, as in the C++ source) of a vector
At(vec, i) == vec[i + 1]

Min(a, b) == IF a < b THEN a ELSE b

Max(a, b) == IF a > b THEN a ELSE b

\* the sum of a sequence of integers
RECURSIVE SumSeq(_)
SumSeq(seq) == IF seq = <<>> THEN 0 ELSE Head(seq) + SumSeq(Tail(seq))

\* the smallest element of a non-empty set of integers
Smallest(S) == CHOOSE m \in S : \A k \in S : m <= k

\* The value of a scalar member that was never assigned (LoadWorkEntry has no
\* constructor, so `LoadWorkEntry entry;` leaves interval and strided
\* indeterminate). Reading it is undefined behaviour.
Indeterminate == -99

IndeterminateInterval == [start |-> Indeterminate, end |-> Indeterminate]

\* `LoadWorkEntry entry;` : vectors empty, scalars indeterminate
DefaultLoadWorkEntry ==
  [work_item_index |-> Indeterminate,
   interval |-> IndeterminateInterval,
   strided |-> [interval |-> IndeterminateInterval, stride |-> Indeterminate],
   gather_points |-> <<>>,
   gather_sequences |-> <<>>]

\* ------------------------------------------------------------------------
\* The work planner (run_job, "Break up videos and their frames into equal
\* sized work items")
\* ------------------------------------------------------------------------
\* video is the index i of the loops over video_paths, sample the position
\* in gather_points / gather_sequences, interval the index i of the loop
\* over samples.intervals
PlanStart ==
  [video |-> 0, sample |-> 0, interval |-> 0,
   allocated_frames |-> 0, total_frames |-> 0,
   total_frames_in_sequences |-> 0,
   work_items |-> <<>>, load_work_items |-> <<>>, done |-> FALSE]

\* a pipeline description of a job that samples All
NoSamples == [stride |-> 1, gather_points |-> <<>>, gather_sequences |-> <<>>]

\* PlanStepAll without the std::min: every chunk has work_item_size frames
PlanStepAll_NoMin(p, frames, work_item_size) ==
  IF p.video >= Len(frames)
  THEN [p EXCEPT !.done = TRUE]
  ELSE IF p.allocated_frames < At(frames, p.video)
  THEN LET frames_to_allocate ==
             work_item_size
           item == [video_index |-> p.video,
                    item_id |-> p.allocated_frames,
                    next_item_id |-> p.allocated_frames + frames_to_allocate,
                    rows_from_start |-> p.allocated_frames]
           items == Append(p.work_items, item)
           load_item ==
             [DefaultLoadWorkEntry EXCEPT
                !.work_item_index = Len(items) - 1,
                !.interval = [start |-> p.allocated_frames,
                              end |-> p.allocated_frames + frames_to_allocate]]
       IN [p EXCEPT !.work_items = items,
                    !.load_work_items = Append(@, load_item),
                    !.allocated_frames = @ + frames_to_allocate]
  ELSE [p EXCEPT !.video = @ + 1,
                 !.allocated_frames = 0,
                 !.total_frames = @ + At(frames, p.video)]

\* One iteration of the Sampling::All loops: either the body of the inner
\* while loop (one more work item of video p.video), or, when the video is
\* used up, the step of the outer for loop to the next video.
PlanStepAll(p, frames, work_item_size) ==
  IF p.video >= Len(frames)
  THEN [p EXCEPT !.done = TRUE]
  ELSE IF p.allocated_frames < At(frames, p.video)
  THEN LET frames_to_allocate ==
             Min(work_item_size, At(frames, p.video) - p.allocated_frames)
           item == [video_index |-> p.video,
                    item_id |-> p.allocated_frames,
                    next_item_id |-> p.allocated_frames + frames_to_allocate,
                    rows_from_start |-> p.allocated_frames]
           items == Append(p.work_items, item)
           load_item ==
             [DefaultLoadWorkEntry EXCEPT
                !.work_item_index = Len(items) - 1,
                !.interval = [start |-> p.allocated_frames,
                              end |-> p.allocated_frames + frames_to_allocate]]
       IN [p EXCEPT !.work_items = items,
                    !.load_work_items = Append(@, load_item),
                    !.allocated_frames = @ + frames_to_allocate]
  ELSE [p EXCEPT !.video = @ + 1,
                 !.allocated_frames = 0,
                 !.total_frames = @ + At(frames, p.video)]

\* PlanStepStrided with rows_from_start counted in encoded frames
PlanStepStrided_RowsNotDivided(p, frames, work_item_size, stride) ==
  IF p.video >= Len(frames)
  THEN [p EXCEPT !.done = TRUE]
  ELSE IF p.allocated_frames < At(frames, p.video)
  THEN LET frames_to_allocate ==
             Min(work_item_size * stride,
                 At(frames, p.video) - p.allocated_frames)
           item == [video_index |-> p.video,
                    item_id |-> p.allocated_frames,
                    next_item_id |-> p.allocated_frames + frames_to_allocate,
                    rows_from_start |-> p.allocated_frames]
           items == Append(p.work_items, item)
           load_item ==
             [DefaultLoadWorkEntry EXCEPT
                !.work_item_index = Len(items) - 1,
                !.strided =
                   [stride |-> stride,
                    interval |->
                      [start |-> p.allocated_frames,
                       end |-> p.allocated_frames + frames_to_allocate]]]
       IN [p EXCEPT !.work_items = items,
                    !.load_work_items = Append(@, load_item),
                    !.allocated_frames = @ + frames_to_allocate,
                    !.total_frames = @ + (frames_to_allocate \div stride)]
  ELSE [p EXCEPT !.video = @ + 1,
                 !.allocated_frames = 0]

\* One iteration of the Sampling::Strided loops.
PlanStepStrided(p, frames, work_item_size, stride) ==
  IF p.video >= Len(frames)
  THEN [p EXCEPT !.done = TRUE]
  ELSE IF p.allocated_frames < At(frames, p.video)
  THEN LET frames_to_allocate ==
             Min(work_item_size * stride,
                 At(frames, p.video) - p.allocated_frames)
           item == [video_index |-> p.video,
                    item_id |-> p.allocated_frames,
                    next_item_id |-> p.allocated_frames + frames_to_allocate,
                    rows_from_start |-> p.allocated_frames \div stride]
           items == Append(p.work_items, item)
           load_item ==
             [DefaultLoadWorkEntry EXCEPT
                !.work_item_index = Len(items) - 1,
                !.strided =
                   [stride |-> stride,
                    interval |->
                      [start |-> p.allocated_frames,
                       end |-> p.allocated_frames + frames_to_allocate]]]
       IN [p EXCEPT !.work_items = items,
                    !.load_work_items = Append(@, load_item),
                    !.allocated_frames = @ + frames_to_allocate,
                    !.total_frames = @ + (frames_to_allocate \div stride)]
  ELSE [p EXCEPT !.video = @ + 1,
                 !.allocated_frames = 0]

\* PlanStepGather with every sublist taken from the start of samples.frames
PlanStepGather_SliceFromStart(p, work_item_size, gather_points) ==
  IF p.sample >= Len(gather_points)
  THEN [p EXCEPT !.done = TRUE]
  ELSE LET samples == At(gather_points, p.sample)
           frames_in_sample == Len(samples.frames)
       IN IF p.allocated_frames < frames_in_sample
          THEN LET frames_to_allocate ==
                     Min(work_item_size,
                         frames_in_sample - p.allocated_frames)
                   item ==
                     [video_index |-> samples.video_index,
                      item_id |-> p.allocated_frames,
                      next_item_id |->
                        p.allocated_frames + frames_to_allocate,
                      rows_from_start |-> p.allocated_frames]
                   items == Append(p.work_items, item)
                   load_item ==
                     [DefaultLoadWorkEntry EXCEPT
                        !.work_item_index = Len(items) - 1,
                        !.gather_points =
                           SubSeq(samples.frames, 1, frames_to_allocate)]
               IN [p EXCEPT !.work_items = items,
                            !.load_work_items = Append(@, load_item),
                            !.allocated_frames = @ + frames_to_allocate]
          ELSE [p EXCEPT !.sample = @ + 1,
                         !.allocated_frames = 0,
                         !.total_frames = @ + frames_in_sample]

\* One iteration of the Sampling::Gather loops: one more work item of the
\* PointSamples at p.sample, or the step to the next PointSamples.
PlanStepGather(p, work_item_size, gather_points) ==
  IF p.sample >= Len(gather_points)
  THEN [p EXCEPT !.done = TRUE]
  ELSE LET samples == At(gather_points, p.sample)
           frames_in_sample == Len(samples.frames)
       IN IF p.allocated_frames < frames_in_sample
          THEN LET frames_to_allocate ==
                     Min(work_item_size,
                         frames_in_sample - p.allocated_frames)
                   item ==
                     [video_index |-> samples.video_index,
                      item_id |-> p.allocated_frames,
                      next_item_id |->
                        p.allocated_frames + frames_to_allocate,
                      rows_from_start |-> p.allocated_frames]
                   items == Append(p.work_items, item)
                   load_item ==
                     [DefaultLoadWorkEntry EXCEPT
                        !.work_item_index = Len(items) - 1,
                        !.gather_points =
                           SubSeq(samples.frames,
                                  p.allocated_frames + 1,
                                  p.allocated_frames + frames_to_allocate)]
               IN [p EXCEPT !.work_items = items,
                            !.load_work_items = Append(@, load_item),
                            !.allocated_frames = @ + frames_to_allocate]
          ELSE [p EXCEPT !.sample = @ + 1,
                         !.allocated_frames = 0,
                         !.total_frames = @ + frames_in_sample]

\* PlanStepSequenceGather without `work_items.back().next_item_id = -1`
PlanStepSequenceGather_NoReset(p, work_item_size, gather_sequences) ==
  IF p.sample >= Len(gather_sequences)
  THEN [p EXCEPT !.done = TRUE]
  ELSE LET samples == At(gather_sequences, p.sample)
       IN IF p.interval >= Len(samples.intervals)
          THEN [p EXCEPT !.sample = @ + 1,
                         !.interval = 0,
                         !.total_frames_in_sequences = 0]
          ELSE LET interval == At(samples.intervals, p.interval)
                   frames_in_sample == interval.end - interval.start
               IN IF p.allocated_frames < frames_in_sample
                  THEN LET frames_to_allocate ==
                             Min(work_item_size,
                                 frames_in_sample - p.allocated_frames)
                           item ==
                             [video_index |-> samples.video_index,
                              item_id |-> p.total_frames_in_sequences,
                              next_item_id |->
                                p.total_frames_in_sequences
                                  + frames_to_allocate,
                              rows_from_start |-> p.allocated_frames]
                           items == Append(p.work_items, item)
                           load_item ==
                             [DefaultLoadWorkEntry EXCEPT
                                !.work_item_index = Len(items) - 1,
                                !.gather_sequences =
                                   <<[start |->
                                        interval.start + p.allocated_frames,
                                      end |->
                                        interval.start + p.allocated_frames
                                          + frames_to_allocate]>>]
                       IN [p EXCEPT
                             !.work_items = items,
                             !.load_work_items = Append(@, load_item),
                             !.allocated_frames = @ + frames_to_allocate,
                             !.total_frames_in_sequences =
                                @ + frames_to_allocate]
                  ELSE [p EXCEPT
                          !.interval = @ + 1,
                          !.allocated_frames = 0,
                          !.total_frames = @ + frames_in_sample]

\* PlanStepSequenceGather with every chunk read from the start of its
\* interval
PlanStepSequenceGather_ChunkFromStart(p, work_item_size, gather_sequences) ==
  IF p.sample >= Len(gather_sequences)
  THEN [p EXCEPT !.done = TRUE]
  ELSE LET samples == At(gather_sequences, p.sample)
       IN IF p.interval >= Len(samples.intervals)
          THEN [p EXCEPT !.sample = @ + 1,
                         !.interval = 0,
                         !.total_frames_in_sequences = 0]
          ELSE LET interval == At(samples.intervals, p.interval)
                   frames_in_sample == interval.end - interval.start
               IN IF p.allocated_frames < frames_in_sample
                  THEN LET frames_to_allocate ==
                             Min(work_item_size,
                                 frames_in_sample - p.allocated_frames)
                           item ==
                             [video_index |-> samples.video_index,
                              item_id |-> p.total_frames_in_sequences,
                              next_item_id |->
                                p.total_frames_in_sequences
                                  + frames_to_allocate,
                              rows_from_start |-> p.allocated_frames]
                           items == Append(p.work_items, item)
                           load_item ==
                             [DefaultLoadWorkEntry EXCEPT
                                !.work_item_index = Len(items) - 1,
                                !.gather_sequences =
                                   <<[start |-> interval.start,
                                      end |->
                                        interval.start
                                          + frames_to_allocate]>>]
                       IN [p EXCEPT
                             !.work_items = items,
                             !.load_work_items = Append(@, load_item),
                             !.allocated_frames = @ + frames_to_allocate,
                             !.total_frames_in_sequences =
                                @ + frames_to_allocate]
                  ELSE [p EXCEPT
                          !.work_items[Len(p.work_items)].next_item_id = -1,
                          !.interval = @ + 1,
                          !.allocated_frames = 0,
                          !.total_frames = @ + frames_in_sample]

\* One iteration of the Sampling::SequenceGather loops: one more work item
\* of the interval at p.interval, or the end of that interval (the last item
\* pushed gets next_item_id = -1), or the step to the next SequenceSamples.
\* An interval has start < end, so work_items is not empty at the end of an
\* interval.
PlanStepSequenceGather(p, work_item_size, gather_sequences) ==
  IF p.sample >= Len(gather_sequences)
  THEN [p EXCEPT !.done = TRUE]
  ELSE LET samples == At(gather_sequences, p.sample)
       IN IF p.interval >= Len(samples.intervals)
          THEN [p EXCEPT !.sample = @ + 1,
                         !.interval = 0,
                         !.total_frames_in_sequences = 0]
          ELSE LET interval == At(samples.intervals, p.interval)
                   frames_in_sample == interval.end - interval.start
               IN IF p.allocated_frames < frames_in_sample
                  THEN LET frames_to_allocate ==
                             Min(work_item_size,
                                 frames_in_sample - p.allocated_frames)
                           item ==
                             [video_index |-> samples.video_index,
                              item_id |-> p.total_frames_in_sequences,
                              next_item_id |->
                                p.total_frames_in_sequences
                                  + frames_to_allocate,
                              rows_from_start |-> p.allocated_frames]
                           items == Append(p.work_items, item)
                           load_item ==
                             [DefaultLoadWorkEntry EXCEPT
                                !.work_item_index = Len(items) - 1,
                                !.gather_sequences =
                                   <<[start |->
                                        interval.start + p.allocated_frames,
                                      end |->
                                        interval.start + p.allocated_frames
                                          + frames_to_allocate]>>]
                       IN [p EXCEPT
                             !.work_items = items,
                             !.load_work_items = Append(@, load_item),
                             !.allocated_frames = @ + frames_to_allocate,
                             !.total_frames_in_sequences =
                                @ + frames_to_allocate]
                  ELSE [p EXCEPT
                          !.work_items[Len(p.work_items)].next_item_id = -1,
                          !.interval = @ + 1,
                          !.allocated_frames = 0,
                          !.total_frames = @ + frames_in_sample]

PlanStep(p, smp, frames, work_item_size, desc) ==
  CASE smp = "All" -> PlanStepAll(p, frames, work_item_size)
    [] smp = "Strided" ->
         PlanStepStrided(p, frames, work_item_size, desc.stride)
    [] smp = "Gather" ->
         PlanStepGather(p, work_item_size, desc.gather_points)
    [] smp = "SequenceGather" ->
         PlanStepSequenceGather(p, work_item_size, desc.gather_sequences)

\* the planner run to completion
RECURSIVE RunPlanner(_, _, _, _, _)
RunPlanner(p, smp, frames, work_item_size, desc) ==
  IF p.done THEN p
  ELSE RunPlanner(PlanStep(p, smp, frames, work_item_size, desc),
                  smp, frames, work_item_size, desc)

work_items == plan.work_items

load_work_items == plan.load_work_items

\* ------------------------------------------------------------------------
\* What a load entry selects
\* ------------------------------------------------------------------------
\* ceil(a / b)
CeilDiv(a, b) == (a + b - 1) \div b

\* the frames start, start + 1, ..., end - 1 of an interval
FramesOf(interval) ==
  [k \in 1 .. Max(0, interval.end - interval.start) |->
     interval.start + k - 1]

\* every stride-th frame of an interval, from its start
StridedFramesOf(interval, stride) ==
  [k \in 1 .. Max(0, CeilDiv(interval.end - interval.start, stride)) |->
     interval.start + (k - 1) * stride]

\* The decode-argument records the load worker writes for one load entry,
\* one per read interval (warmup_count and the keyframes are left out).
DecodeArgs(load_work_entry, smp) ==
  CASE smp = "All" ->
         <<[sampling |-> "All", interval |-> load_work_entry.interval]>>
    [] smp = "Strided" ->
         <<[sampling |-> "Strided",
            interval |-> load_work_entry.strided.interval,
            stride |-> load_work_entry.strided.stride]>>
    [] smp = "Gather" ->
         [i \in 1 .. Len(load_work_entry.gather_points) |->
            [sampling |-> "Gather",
             gather_points |-> <<load_work_entry.gather_points[i]>>]]
    [] smp = "SequenceGather" ->
         [i \in 1 .. Len(load_work_entry.gather_sequences) |->
            [sampling |-> "SequenceGather",
             gather_sequences |-> <<load_work_entry.gather_sequences[i]>>]]

\* The frames the decode evaluator emits for one decode-argument record, one
\* row per sampled frame (the decoder is not part of engine.cpp).
DecodedFrames(decode_args) ==
  CASE decode_args.sampling = "All" -> FramesOf(decode_args.interval)
    [] decode_args.sampling = "Strided" ->
         StridedFramesOf(decode_args.interval, decode_args.stride)
    [] decode_args.sampling = "Gather" -> decode_args.gather_points
    [] decode_args.sampling = "SequenceGather" ->
         FramesOf(decode_args.gather_sequences[1])

RECURSIVE Concat(_)
Concat(seqs) ==
  IF seqs = <<>> THEN <<>> ELSE Head(seqs) \o Concat(Tail(seqs))

\* the frames one load entry selects, in output row order
SelectedFrames(load_work_entry, smp) ==
  LET args == DecodeArgs(load_work_entry, smp)
  IN Concat([i \in 1 .. Len(args) |-> DecodedFrames(args[i])])

\* ------------------------------------------------------------------------
\* Nodes, queues and worker threads
\* ------------------------------------------------------------------------
Nodes == 0 .. num_nodes - 1

\* is_master(rank)
is_master(n) == n = 0

LoadWorkers == 0 .. LOAD_WORKERS_PER_NODE - 1

PUs == 0 .. PUS_PER_NODE - 1

Groups == 0 .. factory_groups_per_chain - 1

SaveWorkers == 0 .. SAVE_WORKERS_PER_NODE - 1

\* Queue<T>::push blocks while the queue holds QueueCap entries
CanPush(q) == Len(q) < QueueCap

\* Queue<T>::pop blocks while the queue is empty
CanPop(q) == Len(q) > 0

\* `LoadWorkEntry entry; entry.work_item_index = -1;`
LoadSentinel == [DefaultLoadWorkEntry EXCEPT !.work_item_index = -1]

\* DeviceType and the <<device type, device id>> pairs of a node: the device
\* id of every evaluator of processing unit pu is pu
DeviceTypes == {"CPU", "GPU"}

Devices == DeviceTypes \X (0 .. Max(PUS_PER_NODE, 1) - 1)

\* An EvalWorkEntry. The entry keeps one list, buffers, with one element
\* per row of column 0, and in column_rows the number of buffers (and of
\* sizes) that each of its columns holds
\* (for a video_decode_item the decode-argument record of the row, for any
\* other entry the frame the row was computed from), and the number of its
\* columns. buffer_type and buffer_device_id are the device tag the entry
\* carries; buffers_on is the device whose allocator the buffers really came
\* from. `EvalWorkEntry entry;` leaves the vectors empty; the device tag and
\* video_decode_item of such an entry are never read.
EvalWorkEntry(i) ==
  [work_item_index |-> i, buffers |-> <<>>, columns |-> 0,
   column_rows |-> <<>>,
   buffer_type |-> "CPU", buffer_device_id |-> 0,
   buffers_on |-> <<"CPU", 0>>,
   video_decode_item |-> FALSE]

\* `EvalWorkEntry entry; entry.work_item_index = -1;`
EvalSentinel == EvalWorkEntry(-1)

\* a worker thread waiting in pop, holding an entry, or returned
Waiting == [st |-> "pop", entry |-> EvalSentinel]

Holding(e) == [st |-> "push", entry |-> e]

Exited == [st |-> "exited", entry |-> EvalSentinel]

\* a thread whose assert failed: the process is aborted
Failed == [st |-> "fatal", entry |-> EvalSentinel]

\* an evaluate thread before its loop: `int last_video_index = -1; int
\* last_next_item_id = -1;`
EvalWaiting ==
  [st |-> "pop", entry |-> EvalSentinel,
   last_video_index |-> -1, last_next_item_id |-> -1]

\* an evaluate thread that has returned (its locals are gone)
EvalExited == [EvalWaiting EXCEPT !.st = "exited"]

IsSentinel(e) == e.work_item_index = -1

\* history: one more sentinel on a queue if the pushed entry is one
NoteLoadPush(n, e) ==
  sentinels_pushed' =
    [sentinels_pushed EXCEPT ![n].load = @ + (IF IsSentinel(e) THEN 1 ELSE 0)]

NoteInitialPush(n, e) ==
  sentinels_pushed' =
    [sentinels_pushed EXCEPT ![n].initial = @ + (IF IsSentinel(e) THEN 1 ELSE 0)]

NoteEvalPush(n, pu, fg, e) ==
  sentinels_pushed' =
    [sentinels_pushed EXCEPT
       ![n].eval[pu][fg] = @ + (IF IsSentinel(e) THEN 1 ELSE 0)]

NoteSavePush(n, e) ==
  sentinels_pushed' =
    [sentinels_pushed EXCEPT ![n].save = @ + (IF IsSentinel(e) THEN 1 ELSE 0)]

\* PUS_PER_NODE * TASKS_IN_QUEUE_PER_PU, the bound of the intake gate
Threshold == PUS_PER_NODE * TASKS_IN_QUEUE_PER_PU

\* i32 local_work = accepted_items - retired_items;
local_work(n) == accepted_items[n] - retired_items[n]

\* BelowThreshold with <= in place of <
BelowThreshold_Inclusive(n) == local_work(n) <= Threshold

\* BelowThreshold with the difference taken the wrong way round
BelowThreshold_Ignored(n) == retired_items[n] - accepted_items[n] < Threshold

\* the intake gate: if (local_work < PUS_PER_NODE * TASKS_IN_QUEUE_PER_PU)
BelowThreshold(n) == local_work(n) < Threshold

\* ------------------------------------------------------------------------
\* The planner as an action
\* ------------------------------------------------------------------------
Planner ==
  /\ ~plan.done
  /\ plan' = PlanStep(plan, sampling, video_frames, WORK_ITEM_SIZE,
                      pipeline_description)
  /\ UNCHANGED <<config, database,
                 driver, queues, threads, mpi, history, observations>>

\* TakeNext with the increment of next_work_item_to_allocate forgotten
TakeNext_NoAdvance == [item |-> next_work_item_to_allocate,
             next |-> next_work_item_to_allocate]

\* ------------------------------------------------------------------------
\* run_job on the master: distributing work
\* ------------------------------------------------------------------------
\* the index the master hands out, and the counter after it
TakeNext == [item |-> next_work_item_to_allocate,
             next |-> next_work_item_to_allocate + 1]

\* the master takes the next planned item itself
MasterAccept ==
  /\ 0 \in Nodes /\ pc[0] = "distribute"
  /\ next_work_item_to_allocate < Len(work_items)
  /\ BelowThreshold(0)
  /\ CanPush(load_work[0])
  /\ LET entry == At(load_work_items, TakeNext.item)
     IN /\ load_work' = [load_work EXCEPT ![0] = Append(@, entry)]
        /\ NoteLoadPush(0, entry)
        /\ issued' = Append(issued, [item |-> TakeNext.item, to |-> 0])
  /\ next_work_item_to_allocate' = TakeNext.next
  /\ pc' = [pc EXCEPT ![0] = "count"]
  /\ UNCHANGED <<config, database,
                 plan, loops, accepted_items, retired_items, workers_done,
                 next_item, initial_eval_work, eval_work, save_work, threads,
                 mpi, received,
                 observations>>

\* `accepted_items++;`, the statement after load_work.push(entry) in the
\* loop of the master and in that of a worker node: the threads of the node
\* may run between the two
CountAccepted(n) ==
  /\ n \in Nodes /\ pc[n] = "count"
  /\ accepted_items' = [accepted_items EXCEPT ![n] = @ + 1]
  /\ pc' = [pc EXCEPT ![n] = "distribute"]
  /\ UNCHANGED <<config, database,
                 plan, loops, retired_items, master, next_item,
                 queues, threads, mpi, history, observations>>

\* its own backlog is full: the master enters MPI_Recv
MasterWait ==
  /\ 0 \in Nodes /\ pc[0] = "distribute"
  /\ next_work_item_to_allocate < Len(work_items)
  /\ ~BelowThreshold(0)
  /\ num_nodes > 1
  /\ pc' = [pc EXCEPT ![0] = "recv"]
  /\ UNCHANGED <<config, database,
                 plan, loops, accepted_items, retired_items, master,
                 next_item, queues, threads, mpi, history, observations>>

\* MPI_Recv from any source returns; the next item is sent to that source
MasterServe ==
  /\ 0 \in Nodes /\ pc[0] = "recv"
  /\ \E src \in requests :
       /\ requests' = requests \ {src}
       /\ replies' = [replies EXCEPT ![src] = Append(@, TakeNext.item)]
       /\ issued' = Append(issued, [item |-> TakeNext.item, to |-> src])
  /\ next_work_item_to_allocate' = TakeNext.next
  /\ pc' = [pc EXCEPT ![0] = "distribute"]
  /\ UNCHANGED <<config, database,
                 plan, loops, accepted_items, retired_items,
                 workers_done, next_item, queues, threads, received,
                 sentinels_pushed,
                 observations>>

\* MasterExhausted with workers_done starting at 0: the master counts itself
MasterExhausted_CountsFromZero ==
  /\ 0 \in Nodes /\ pc[0] = "distribute"
  /\ ~(next_work_item_to_allocate < Len(work_items))
  /\ workers_done' = 0
  /\ pc' = [pc EXCEPT ![0] = "drain"]
  /\ UNCHANGED <<config, database,
                 plan, loops, accepted_items, retired_items,
                 next_work_item_to_allocate, next_item, queues, threads, mpi,
                 history, observations>>

\* the plan is exhausted: i32 workers_done = 1
MasterExhausted ==
  /\ 0 \in Nodes /\ pc[0] = "distribute"
  /\ ~(next_work_item_to_allocate < Len(work_items))
  /\ workers_done' = 1
  /\ pc' = [pc EXCEPT ![0] = "drain"]
  /\ UNCHANGED <<config, database,
                 plan, loops, accepted_items, retired_items,
                 next_work_item_to_allocate, next_item, queues, threads, mpi,
                 history, observations>>

\* one iteration of the loop that answers -1
MasterDrain ==
  /\ 0 \in Nodes /\ pc[0] = "drain"
  /\ workers_done < num_nodes
  /\ \E src \in requests :
       /\ requests' = requests \ {src}
       /\ replies' = [replies EXCEPT ![src] = Append(@, -1)]
  /\ workers_done' = workers_done + 1
  /\ UNCHANGED <<config, database,
                 plan, pc, loops, accepted_items, retired_items,
                 next_work_item_to_allocate, next_item, queues, threads,
                 history, observations>>

\* MasterDrained with the loop left one answer early
MasterDrained_OneEarly ==
  /\ 0 \in Nodes /\ pc[0] = "drain"
  /\ ~(workers_done + 1 < num_nodes)
  /\ pc' = [pc EXCEPT ![0] = "load_sentinels"]
  /\ UNCHANGED <<config, database,
                 plan, loops, accepted_items, retired_items, master,
                 next_item, queues, threads, mpi, history, observations>>

\* every worker node was answered -1: on to the shutdown sequence
MasterDrained ==
  /\ 0 \in Nodes /\ pc[0] = "drain"
  /\ ~(workers_done < num_nodes)
  /\ pc' = [pc EXCEPT ![0] = "load_sentinels"]
  /\ UNCHANGED <<config, database,
                 plan, loops, accepted_items, retired_items, master,
                 next_item, queues, threads, mpi, history, observations>>

\* ------------------------------------------------------------------------
\* run_job on a non-master node: requesting work
\* ------------------------------------------------------------------------
\* the backlog is below the threshold: MPI_Send of the request
WorkerRequest(n) ==
  /\ ~is_master(n) /\ pc[n] = "distribute"
  /\ BelowThreshold(n)
  /\ requests' = requests \cup {n}
  /\ pc' = [pc EXCEPT ![n] = "wait_reply"]
  /\ UNCHANGED <<config, database,
                 plan, loops, accepted_items, retired_items, master,
                 next_item, queues, threads, replies, history, observations>>

\* MPI_Recv of the reply: -1 ends the loop, an index is to be pushed
WorkerReceive(n) ==
  /\ ~is_master(n) /\ pc[n] = "wait_reply"
  /\ replies[n] # <<>>
  /\ next_item' = [next_item EXCEPT ![n] = Head(replies[n])]
  /\ received' = [received EXCEPT ![n] = Append(@, Head(replies[n]))]
  /\ replies' = [replies EXCEPT ![n] = Tail(@)]
  /\ pc' = [pc EXCEPT ![n] = IF Head(replies[n]) = -1
                              THEN "load_sentinels" ELSE "push_work"]
  /\ UNCHANGED <<config, database,
                 plan, loops, accepted_items, retired_items, master,
                 queues, threads, requests, issued, sentinels_pushed,
                 observations>>

\* `LoadWorkEntry entry; entry.work_item_index = next_item;`
WorkerEntry(item) ==
  [DefaultLoadWorkEntry EXCEPT !.work_item_index = item]

\* load_work.push(entry)
WorkerAccept(n) ==
  /\ ~is_master(n) /\ pc[n] = "push_work"
  /\ CanPush(load_work[n])
  /\ LET entry == WorkerEntry(next_item[n])
     IN /\ load_work' = [load_work EXCEPT ![n] = Append(@, entry)]
        /\ NoteLoadPush(n, entry)
  /\ pc' = [pc EXCEPT ![n] = "count"]
  /\ UNCHANGED <<config, database,
                 plan, loops, accepted_items, retired_items, master,
                 next_item,
                 initial_eval_work, eval_work, save_work, threads, mpi,
                 issued, received,
                 observations>>

\* ------------------------------------------------------------------------
\* load_video_thread
\* ------------------------------------------------------------------------
\* an observation variable changes only in a run that records observations
Observe(now, next) == IF recording THEN next ELSE now

\* what a load or save worker decides about its evaluators: nothing
NoDecision ==
  [pu |-> 0, needs_configure |-> FALSE, needs_reset |-> FALSE,
   total_warmup_frames |-> 0]

\* stages after a worker of rank n, of the given stage (and, for an evaluate
\* thread, factory group), has handled the entry of work item `item`, with
\* what an evaluate thread decided for it
Handled(n, stage, group, item, decision) ==
  IF tracing
  THEN [stages EXCEPT
          ![item] = Append(@, [stage |-> stage, group |-> group,
                               node |-> n, decision |-> decision])]
  ELSE stages

\* What reading an interval that was never assigned can give: any value; two
\* intervals that lie inside every video of a cluster run stand for them.
GarbageIntervals == {[start |-> 0, end |-> 1], [start |-> 0, end |-> 2]}

\* The entries the load worker may see when it reads load_work_entry: the
\* entry itself, or, where the interval its sampling reads is indeterminate,
\* the entry with any interval in its place.
Readings(load_work_entry, smp) ==
  CASE smp = "All" /\ load_work_entry.interval = IndeterminateInterval ->
         {[load_work_entry EXCEPT !.interval = iv] : iv \in GarbageIntervals}
    [] smp = "Strided"
         /\ load_work_entry.strided.interval = IndeterminateInterval ->
         {[load_work_entry EXCEPT
             !.strided = [interval |-> iv, stride |-> 1]] :
            iv \in GarbageIntervals}
    [] OTHER -> {load_work_entry}

\* std::numeric_limits<size_t>::max(), the start index before the first loop
\* of find_keyframe_indices finds one; no index of a list
npos == -1

\* find_keyframe_indices of a thread whose second loop stops at the first
\* keyframe after end_frame
find_keyframe_indices_PastEnd(start_frame, end_frame, keyframe_positions) ==
  LET last == Len(keyframe_positions) - 1
      after == {i \in 1 .. last : At(keyframe_positions, i) > start_frame}
      start_keyframe_index == IF after = {} THEN npos ELSE Smallest(after) - 1
      from == IF after = {}
              THEN {}
              ELSE {i \in start_keyframe_index .. last :
                      At(keyframe_positions, i) > end_frame}
  IN [start |-> start_keyframe_index,
      end |-> IF from = {} THEN 0 ELSE Smallest(from)]

\* find_keyframe_indices: the index before the first keyframe position (from
\* index 1 on) that is greater than start_frame, and the first index from
\* there on whose position is at least end_frame. A loop that finds no index
\* leaves the value the index had before it: npos for the start, 0 for the
\* end (the second loop runs from npos over no index at all).
find_keyframe_indices(start_frame, end_frame, keyframe_positions) ==
  LET last == Len(keyframe_positions) - 1
      after == {i \in 1 .. last : At(keyframe_positions, i) > start_frame}
      start_keyframe_index == IF after = {} THEN npos ELSE Smallest(after) - 1
      from == IF after = {}
              THEN {}
              ELSE {i \in start_keyframe_index .. last :
                      At(keyframe_positions, i) >= end_frame}
  IN [start |-> start_keyframe_index,
      end |-> IF from = {} THEN 0 ELSE Smallest(from)]

\* `assert(start_keyframe_index != std::numeric_limits<size_t>::max())` and
\* `assert(end_keyframe_index != 0)`: both hold of the indices found
BracketFound(index) == index.start # npos /\ index.end # 0

\* the interval of frames the load worker reads for a decode-argument record
ReadInterval(decode_args) ==
  CASE decode_args.sampling \in {"All", "Strided"} -> decode_args.interval
    [] decode_args.sampling = "Gather" ->
         [start |-> decode_args.gather_points[1],
          end |-> decode_args.gather_points[1] + 1]
    [] decode_args.sampling = "SequenceGather" ->
         decode_args.gather_sequences[1]

\* metadata of videos whose only keyframe is frame 0, at byte 0 of a file of
\* as many bytes as the video has frames
OneKeyframe(frames) ==
  [v \in 1 .. Len(frames) |->
     [keyframe_positions |-> <<0>>, keyframe_byte_offsets |-> <<0>>,
      file_size |-> frames[v]]]

\* keyframe_positions and keyframe_byte_offsets of the load worker for a
\* video: those of the metadata, with the frame count and the file size
\* placed at the end
KeyframePositions(video_index) ==
  Append(At(video_metadata, video_index).keyframe_positions,
         At(video_frames, video_index))

KeyframeByteOffsets(video_index) ==
  Append(At(video_metadata, video_index).keyframe_byte_offsets,
         At(video_metadata, video_index).file_size)

\* `intervals` of a load worker that reads the points of a Gather entry as
\* one interval
LoadIntervals_OneRead(load_work_entry, smp) ==
  CASE smp = "All" -> <<load_work_entry.interval>>
    [] smp = "Strided" -> <<load_work_entry.strided.interval>>
    [] smp = "Gather" ->
         IF load_work_entry.gather_points = <<>>
         THEN <<>>
         ELSE <<[start |-> load_work_entry.gather_points[1],
                 end |->
                   load_work_entry.gather_points[
                     Len(load_work_entry.gather_points)] + 1]>>
    [] smp = "SequenceGather" -> load_work_entry.gather_sequences

\* `std::vector<Interval> intervals`: the intervals of frames the load worker
\* reads for one load entry
LoadIntervals(load_work_entry, smp) ==
  CASE smp = "All" -> <<load_work_entry.interval>>
    [] smp = "Strided" -> <<load_work_entry.strided.interval>>
    [] smp = "Gather" ->
         [i \in 1 .. Len(load_work_entry.gather_points) |->
            [start |-> load_work_entry.gather_points[i],
             end |-> load_work_entry.gather_points[i] + 1]]
    [] smp = "SequenceGather" -> load_work_entry.gather_sequences

\* the asserts of find_keyframe_indices hold for every interval the load
\* worker reads for the entry
BracketsFound(load_work_entry, smp) ==
  LET intervals == LoadIntervals(load_work_entry, smp)
      work_item == At(work_items, load_work_entry.work_item_index)
  IN \A i \in 1 .. Len(intervals) :
       BracketFound(
         find_keyframe_indices(intervals[i].start, intervals[i].end,
                               KeyframePositions(work_item.video_index)))

\* Column 0 of a row of the entry the load worker builds, and what the
\* worker adds to the decode-argument record of the row: the keyframes
\* that bracket the interval, and, as `video`, the bytes [begin, end) of the
\* file that the encoded buffer holds.
LoadedRow(interval, video_index) ==
  LET keyframe_positions == KeyframePositions(video_index)
      keyframe_byte_offsets == KeyframeByteOffsets(video_index)
      index == find_keyframe_indices(interval.start, interval.end,
                                     keyframe_positions)
  IN [start_keyframe |-> At(keyframe_positions, index.start),
      end_keyframe |-> At(keyframe_positions, index.end),
      video |-> [begin |-> At(keyframe_byte_offsets, index.start),
                 end |-> At(keyframe_byte_offsets, index.end)]]

\* a row without one of its two columns
NoColumn == [c \in {} |-> 0]

\* The EvalWorkEntry the load worker builds: column 0 holds one encoded
\* buffer per read interval, column 1 one decode-argument record per
\* record the sampling branch wrote; row i of the entry here is the two of
\* them together. The entry is a video_decode_item in CPU memory of device
\* 0.
LoadedEntry(load_work_entry, smp) ==
  [work_item_index |-> load_work_entry.work_item_index,
   buffers |->
     IF load_work_entry.work_item_index = -1
     THEN <<>>
     ELSE LET args == DecodeArgs(load_work_entry, smp)
              intervals == LoadIntervals(load_work_entry, smp)
              work_item == At(work_items, load_work_entry.work_item_index)
          IN [i \in 1 .. Max(Len(args), Len(intervals)) |->
                (IF i <= Len(args) THEN args[i] ELSE NoColumn)
                  @@ (IF i <= Len(intervals)
                      THEN LoadedRow(intervals[i], work_item.video_index)
                      ELSE NoColumn)],
   columns |-> 2,
   column_rows |->
     IF load_work_entry.work_item_index = -1
     THEN <<0, 0>>
     ELSE <<Len(LoadIntervals(load_work_entry, smp)),
            Len(DecodeArgs(load_work_entry, smp))>>,
   buffer_type |-> "CPU", buffer_device_id |-> 0,
   buffers_on |-> <<"CPU", 0>>,
   video_decode_item |-> TRUE]

\* LoadPop of a thread that passes the sentinel on instead of returning
LoadPop_ForwardsSentinel(n, i) ==
  /\ load_thread[n][i].st = "pop"
  /\ CanPop(load_work[n])
  /\ load_work' = [load_work EXCEPT ![n] = Tail(@)]
  /\ \E load_work_entry \in Readings(Head(load_work[n]), sampling) :
       LET eval_work_entry == LoadedEntry(load_work_entry, sampling)
       IN IF load_work_entry.work_item_index = -1
          THEN /\ load_thread' =
                    [load_thread EXCEPT ![n][i] = Holding(EvalSentinel)]
               /\ UNCHANGED raw_new_calls
          ELSE /\ load_thread' =
                    [load_thread EXCEPT ![n][i] = Holding(eval_work_entry)]
               /\ raw_new_calls' =
                    Observe(raw_new_calls,
                            raw_new_calls
                              + 2 * Len(eval_work_entry.buffers))
  /\ UNCHANGED <<config, database,
                 plan, driver, initial_eval_work, eval_work,
                 save_work, eval_thread, save_thread, mpi, history,
                 new_buffer_calls, delete_buffer_calls, released, saved,
                 files, stages, configure_calls, reset_calls, batches,
                 evaluate_calls>>

\* args.load_work.pop(load_work_entry): a sentinel ends the thread; for any
\* other entry the thread allocates (with new u8[]) one decode-argument
\* record and one encoded buffer per read interval
LoadPop(n, i) ==
  /\ load_thread[n][i].st = "pop"
  /\ CanPop(load_work[n])
  /\ load_work' = [load_work EXCEPT ![n] = Tail(@)]
  /\ \E load_work_entry \in Readings(Head(load_work[n]), sampling) :
       LET eval_work_entry == LoadedEntry(load_work_entry, sampling)
       IN IF load_work_entry.work_item_index = -1
          THEN /\ load_thread' = [load_thread EXCEPT ![n][i] = Exited]
               /\ UNCHANGED <<raw_new_calls, stages>>
          ELSE IF ~BracketsFound(load_work_entry, sampling)
          THEN /\ load_thread' = [load_thread EXCEPT ![n][i] = Failed]
               /\ UNCHANGED <<raw_new_calls, stages>>
          ELSE /\ load_thread' =
                    [load_thread EXCEPT ![n][i] = Holding(eval_work_entry)]
               /\ raw_new_calls' =
                    Observe(raw_new_calls,
                            raw_new_calls
                              + 2 * Len(eval_work_entry.buffers))
               /\ stages' =
                    Handled(n, "load", 0, load_work_entry.work_item_index,
                            NoDecision)
  /\ UNCHANGED <<config, database,
                 plan, driver, initial_eval_work, eval_work,
                 save_work, eval_thread, save_thread, mpi, history,
                 new_buffer_calls, delete_buffer_calls, released, saved,
                 files, configure_calls, reset_calls, batches,
                 evaluate_calls>>

\* args.eval_work.push(eval_work_entry)
LoadPush(n, i) ==
  /\ load_thread[n][i].st = "push"
  /\ CanPush(initial_eval_work[n])
  /\ initial_eval_work' =
       [initial_eval_work EXCEPT ![n] = Append(@, load_thread[n][i].entry)]
  /\ NoteInitialPush(n, load_thread[n][i].entry)
  /\ load_thread' = [load_thread EXCEPT ![n][i] = Waiting]
  /\ UNCHANGED <<config, database,
                 plan, driver, load_work, eval_work, save_work,
                 eval_thread, save_thread, mpi, issued, received,
                 observations>>

\* ------------------------------------------------------------------------
\* evaluate_thread of processing unit pu and factory group fg
\* ------------------------------------------------------------------------
first_evaluator_group(fg) == fg = 0

last_evaluator_group(fg) == fg = factory_groups_per_chain - 1

\* the entry at the head of the thread's input queue
EvalInput(n, pu, fg) ==
  IF first_evaluator_group(fg)
  THEN initial_eval_work[n]
  ELSE eval_work[n][pu][fg - 1]

\* new_buffer or delete_buffer calls, counted per device
NoCalls == [d \in Devices |-> 0]

Calls(device, count) == [NoCalls EXCEPT ![device] = count]

AddCalls(f, g) == [d \in Devices |-> f[d] + g[d]]

\* get_output_names().size() of every evaluator factory: one output column
num_evaluator_outputs == 1

\* How an evaluator answers evaluate() (the evaluators are not part of
\* engine.cpp). "rows": the decode evaluator emits one row per sampled frame
\* and any other evaluator one output row per input row. "warmup": a decode
\* evaluator that emits, before the rows of every read interval, the warmup
\* frames that precede it. "extra_row": one row more than that. "extra_column":
\* one output column more than the factory declares, in output_buffers and
\* in output_sizes alike. "sizes_short": one column less in output_sizes
\* than in output_buffers. "ragged": a decode evaluator of two declared
\* output columns that leaves the last buffer, and its size, out of every
\* column but the first.
Behaviours ==
  {"rows", "warmup", "extra_row", "extra_column", "sizes_short", "ragged"}

\* get_output_names().size() of the factory of an evaluator
DeclaredOutputs(behaviour) ==
  IF behaviour = "ragged"
  THEN num_evaluator_outputs + 1
  ELSE num_evaluator_outputs

\* the frames a "warmup" decoder emits ahead of a read interval
WarmupFrames(decode_args) ==
  LET start == ReadInterval(decode_args).start
  IN FramesOf([start |-> Max(0, start - warmup_size), end |-> start])

\* Evaluator::evaluate on the rows of a batch: the output rows
Evaluate(rows, decode, behaviour) ==
  LET output ==
        IF decode
        THEN Concat([i \in 1 .. Len(rows) |->
                       (IF behaviour = "warmup"
                        THEN WarmupFrames(rows[i])
                        ELSE <<>>) \o DecodedFrames(rows[i])])
        ELSE rows
  IN IF behaviour = "extra_row" /\ output # <<>>
     THEN Append(output, output[Len(output)])
     ELSE output

\* output_buffers.size() after evaluate()
OutputBuffers(behaviour) ==
  IF behaviour = "extra_column"
  THEN DeclaredOutputs(behaviour) + 1
  ELSE DeclaredOutputs(behaviour)

\* output_buffers[c].size() and output_sizes[c].size() after evaluate(), for
\* every column c the evaluator returned
ColumnRows(output, behaviour) ==
  [c \in 1 .. OutputBuffers(behaviour) |->
     IF behaviour = "ragged" /\ c > 1 /\ output # <<>>
     THEN Len(output) - 1
     ELSE Len(output)]

\* output_sizes.size() after evaluate()
OutputSizes(behaviour) ==
  CASE behaviour = "extra_column" -> DeclaredOutputs(behaviour) + 1
    [] behaviour = "sizes_short" -> DeclaredOutputs(behaviour) - 1
    [] OTHER -> DeclaredOutputs(behaviour)

\* `needs_configure`
NeedsConfigure(work_item, thread) ==
  ~(work_item.video_index = thread.last_video_index)

\* needs_reset of a thread that resets only when the video changes
NeedsReset_VideoOnly(work_item, thread) ==
  ~(work_item.video_index = thread.last_video_index)

\* `needs_reset`
NeedsReset(work_item, thread) ==
  ~(work_item.video_index = thread.last_video_index
      /\ work_item.item_id = thread.last_next_item_id)

\* the test of a thread that migrates only between device types
NeedsMigration_TypeOnly(input, device) == input[1] # device[1]

\* `input_buffer_type != caps.device_type || input_device_id != device_id`
NeedsMigration(input, device) == input # device

\* the input rows after a migration: `buffers[b] = buffer` puts the copy of
\* every buffer in the place of its original
Migrated(rows) == [b \in 1 .. Len(rows) |-> rows[b]]

\* the LOG_IF(FATAL, ...) checks of evaluator e pass: as many output_sizes
\* columns as output_buffers columns, and, unless this is the decoding
\* evaluator, batch_size rows in every column
Validated_AnyRows(output, behaviour, decode, batch_size) ==
  OutputBuffers(behaviour) = OutputSizes(behaviour)

Validated(output, behaviour, decode, batch_size) ==
  /\ OutputBuffers(behaviour) = OutputSizes(behaviour)
  /\ decode \/ \A c \in 1 .. OutputBuffers(behaviour) :
                 ColumnRows(output, behaviour)[c] = batch_size

\* One pass of the loop over the evaluators of a group: the batch, held in
\* st, moves to the evaluator's device if its tag names another one (a new
\* buffer there and a delete under the tag for every input buffer), the
\* evaluator writes its output rows into new buffers on its device, the
\* output is validated, and the input buffers are deleted.
EvaluatorStep(st, caps, device_id, decode) ==
  LET input == <<st.buffer_type, st.device_id>>
      device == <<caps.device_type, device_id>>
      num_buffers == st.columns * Len(st.rows)
      migrate == NeedsMigration(input, device)
      moved == IF migrate THEN num_buffers ELSE 0
      input_rows == IF migrate THEN Migrated(st.rows) ELSE st.rows
      num_outputs == OutputBuffers(caps.behaviour)
  IN \* (the output is drawn from a set of one so that it is computed once)
     CHOOSE next \in
       {[rows |-> output,
         columns |-> num_outputs,
         column_rows |-> ColumnRows(output, caps.behaviour),
         buffer_type |-> caps.device_type,
         device_id |-> device_id,
         buffers_on |-> device,
         batch_size |-> IF decode THEN Len(output) ELSE st.batch_size,
         fatal |->
           ~Validated(output, caps.behaviour, decode, st.batch_size),
         new_calls |->
           Observe(st.new_calls,
                   AddCalls(st.new_calls,
                            Calls(device,
                                  moved
                                    + SumSeq(ColumnRows(output,
                                                        caps.behaviour))))),
         delete_calls |->
           Observe(st.delete_calls,
                   AddCalls(st.delete_calls,
                            AddCalls(Calls(input, moved),
                                     Calls(device, num_buffers)))),
         evaluate_calls |->
           Observe(st.evaluate_calls,
           st.evaluate_calls
             \cup {[device |-> device,
                    tag |-> input,
                    originals_on |-> st.buffers_on,
                    inputs_on |-> IF migrate THEN device ELSE st.buffers_on,
                    num_buffers |-> num_buffers,
                    copies |-> moved,
                    originals_released |-> moved,
                    order_kept |-> input_rows = st.rows]})] :
          output \in {Evaluate(input_rows, decode, caps.behaviour)}} : TRUE

\* `for (size_t e = 0; e < evaluators.size(); ++e)`, from evaluator e on (e
\* counts from 1 here); every evaluator of processing unit pu has device id
\* pu, and only the first evaluator decodes, and only a video_decode_item.
\* A failed validation ends the process. (The batch after evaluator e is
\* drawn from a set of one so that it is computed once.)
RECURSIVE RunEvaluators(_, _, _, _, _)
RunEvaluators(st, e, group, pu, video_decode_item) ==
  IF e > Len(group) \/ st.fatal
  THEN st
  ELSE CHOOSE batch \in
         {RunEvaluators(next, e + 1, group, pu, video_decode_item) :
            next \in {EvaluatorStep(st, group[e], pu,
                                    e = 1 /\ video_decode_item)}} : TRUE

\* `last_evaluator_num_columns`: the output columns that the factory of the
\* last evaluator of the group declares
last_evaluator_num_columns(group) ==
  DeclaredOutputs(group[Len(group)].behaviour)

\* last_evaluator_device_type and last_evaluator_device_id of a thread
LastEvaluatorDevice(group, pu) == <<group[Len(group)].device_type, pu>>

\* the test of a thread that forwards its output rows where they are
NeedsNormalisation_Never(output_buffer_type) == FALSE

\* `if (output_buffer_type != DeviceType::CPU)`: the kept rows are copied
\* into CPU memory of device 0
NeedsNormalisation(output_buffer_type) == output_buffer_type # "CPU"

\* KeptRows of a thread that appends the kept rows of a batch last row first
KeptRows_Reversed(rows, warmup_frames) ==
  [k \in 1 .. Len(rows) - warmup_frames |-> rows[Len(rows) + 1 - k]]

\* the rows of a batch after its first warmup_frames rows
KeptRows(rows, warmup_frames) == SubSeq(rows, warmup_frames + 1, Len(rows))

\* what a read past the end of an entry's buffer lists can yield: a pointer
\* to no frame of the video, or to its first frame
GarbageRows == {-1, 0}

\* `i32 batch_size = std::min(total_inputs, WORK_ITEM_SIZE);`
BatchSize(total_inputs, current_input) == Min(total_inputs, WORK_ITEM_SIZE)

\* the reads past the end that the batches of an entry make
PastEnd(work_entry) ==
  LET total_inputs == Len(work_entry.buffers)
  IN IF \E current_input \in 0 .. total_inputs - 1 :
          /\ current_input % WORK_ITEM_SIZE = 0
          /\ current_input + BatchSize(total_inputs, current_input)
               > total_inputs
     THEN GarbageRows
     ELSE {-1}

\* warmup_frames of a thread that trims the first rows of every batch
WarmupFramesOfBatch_EveryBatch(batch_size, trim, current_input) ==
  Min(batch_size, trim)

\* `warmup_frames = std::min(batch_size, std::max(0, total_warmup_frames -
\* current_input))`, with trim the total_warmup_frames of the entry, zero
\* where the thread discards nothing
WarmupFramesOfBatch(batch_size, trim, current_input) ==
  Min(batch_size, Max(0, trim - current_input))

\* `while (current_input < total_inputs)`: the batches of work_entry from
\* row current_input on, for the thread of group `group` on processing unit
\* pu. out collects the kept rows, the released warmup rows, the buffer
\* calls and what was observed of the batches. A slice that runs past the
\* end of the entry reads `garbage` there.
RECURSIVE EvaluateBatches(_, _, _, _, _, _, _)
EvaluateBatches(out, work_entry, current_input, group, pu, trim, garbage) ==
  LET total_inputs == Len(work_entry.buffers)
      taken == BatchSize(total_inputs, current_input)
      \* the entry's output with the batch that left the evaluators as
      \* `batch` added to it
      Added(batch) ==
        LET batch_size == batch.batch_size
            warmup_frames ==
              WarmupFramesOfBatch(batch_size, trim, current_input)
            kept == KeptRows(batch.rows, warmup_frames)
            \* the rows kept of every column of the last evaluator
            kept_rows ==
              [c \in 1 .. last_evaluator_num_columns(group) |->
                 Max(0, batch.column_rows[c] - warmup_frames)]
            output_device == <<batch.buffer_type, batch.device_id>>
            copied ==
              IF NeedsNormalisation(batch.buffer_type)
              THEN SumSeq(kept_rows)
              ELSE 0
        IN IF batch.fatal
           THEN [out EXCEPT !.fatal = TRUE,
                            !.evaluate_calls = batch.evaluate_calls]
           ELSE
             [buffers |-> out.buffers \o kept,
              column_rows |->
                [c \in 1 .. last_evaluator_num_columns(group) |->
                   out.column_rows[c] + kept_rows[c]],
              released |->
                out.released \o SubSeq(batch.rows, 1, warmup_frames),
              buffers_on |->
                IF NeedsNormalisation(batch.buffer_type)
                THEN <<"CPU", 0>>
                ELSE batch.buffers_on,
              fatal |-> FALSE,
              current_input |-> current_input + batch_size,
              new_calls |->
                Observe(batch.new_calls,
                        AddCalls(batch.new_calls,
                                 Calls(<<"CPU", 0>>, copied))),
              delete_calls |->
                Observe(batch.delete_calls,
                        AddCalls(batch.delete_calls,
                                 AddCalls(
                                   Calls(LastEvaluatorDevice(group, pu),
                                         last_evaluator_num_columns(group)
                                           * warmup_frames),
                                   Calls(output_device, copied)))),
              batches |->
                Observe(out.batches,
                out.batches
                  \cup {[total_inputs |-> total_inputs,
                         current_input |-> current_input,
                         taken |-> taken,
                         batch_size |-> batch_size,
                         trim |-> trim,
                         warmup_frames |-> warmup_frames,
                         outputs_on |-> batch.buffers_on,
                         warmup_released_on |->
                           LastEvaluatorDevice(group, pu),
                         normalised |-> copied,
                         normalised_from |-> output_device]}),
              evaluate_calls |-> batch.evaluate_calls]
  IN IF current_input >= total_inputs \/ out.fatal
     THEN out
     ELSE
       \* (each value is drawn from a set of one so that it is computed once)
       CHOOSE result \in
         {EvaluateBatches(added, work_entry, added.current_input, group, pu,
                          trim, garbage) :
            added \in
              {Added(batch) :
                 batch \in
                   {RunEvaluators(
                      [rows |->
                         [k \in 1 .. taken |->
                            IF current_input + k <= total_inputs
                            THEN work_entry.buffers[current_input + k]
                            ELSE garbage],
                       columns |-> work_entry.columns,
                       column_rows |->
                         [c \in 1 .. work_entry.columns |-> taken],
                       buffer_type |-> work_entry.buffer_type,
                       device_id |-> work_entry.buffer_device_id,
                       buffers_on |-> work_entry.buffers_on,
                       batch_size |-> taken,
                       fatal |-> FALSE,
                       new_calls |-> out.new_calls,
                       delete_calls |-> out.delete_calls,
                       evaluate_calls |-> out.evaluate_calls],
                      1, group, pu, work_entry.video_decode_item)}}} : TRUE

\* total_warmup_frames of a work item in the thread of group fg, zero where
\* the thread discards nothing
TotalWarmupFrames(work_item, fg, needs_reset) ==
  IF last_evaluator_group(fg) /\ needs_reset
  THEN Min(warmup_size, work_item.rows_from_start)
  ELSE 0

\* what the thread of group fg on pu makes of work_entry
Evaluated(work_entry, pu, fg, thread, garbage) ==
  LET work_item == At(work_items, work_entry.work_item_index)
  IN EvaluateBatches(
       [buffers |-> <<>>,
        column_rows |->
          [c \in 1 .. last_evaluator_num_columns(factory_groups[fg + 1])
             |-> 0],
        released |-> <<>>, buffers_on |-> <<"CPU", 0>>,
        fatal |-> FALSE, current_input |-> 0,
        new_calls |-> NoCalls, delete_calls |-> NoCalls,
        batches |-> {}, evaluate_calls |-> {}],
       work_entry, 0, factory_groups[fg + 1], pu,
       TotalWarmupFrames(work_item, fg, NeedsReset(work_item, thread)),
       garbage)

\* args.input_work.pop(work_entry): a sentinel ends the thread; for any other
\* entry the thread configures and resets its evaluators as the work item
\* requires, passes the entry through them batch by batch and builds the
\* output entry of the same work item, tagged CPU, device 0. A failed
\* validation ends the process instead.
EvalPop(n, pu, fg) ==
  /\ eval_thread[n][pu][fg].st = "pop"
  /\ CanPop(EvalInput(n, pu, fg))
  /\ IF first_evaluator_group(fg)
     THEN /\ initial_eval_work' = [initial_eval_work EXCEPT ![n] = Tail(@)]
          /\ UNCHANGED eval_work
     ELSE /\ eval_work' = [eval_work EXCEPT ![n][pu][fg - 1] = Tail(@)]
          /\ UNCHANGED initial_eval_work
  /\ LET work_entry == Head(EvalInput(n, pu, fg))
         thread == eval_thread[n][pu][fg]
     IN IF work_entry.work_item_index = -1
        THEN /\ eval_thread' = [eval_thread EXCEPT ![n][pu][fg] = EvalExited]
             /\ UNCHANGED <<new_buffer_calls, delete_buffer_calls, released,
                            stages, configure_calls, reset_calls, batches,
                            evaluate_calls>>
        ELSE
          \E garbage \in PastEnd(work_entry) :
          \E out \in {Evaluated(work_entry, pu, fg, thread, garbage)} :
            LET work_item == At(work_items, work_entry.work_item_index)
                output_work_entry ==
                  [work_item_index |-> work_entry.work_item_index,
                   buffers |-> out.buffers,
                   columns |->
                     last_evaluator_num_columns(factory_groups[fg + 1]),
                   column_rows |-> out.column_rows,
                   buffer_type |-> "CPU", buffer_device_id |-> 0,
                   buffers_on |-> out.buffers_on,
                   video_decode_item |-> FALSE]
            IN /\ eval_thread' =
                    [eval_thread EXCEPT ![n][pu][fg] =
                       IF out.fatal
                       THEN [thread EXCEPT !.st = "fatal"]
                       ELSE [st |-> "push", entry |-> output_work_entry,
                             last_video_index |-> work_item.video_index,
                             last_next_item_id |-> work_item.next_item_id]]
               /\ configure_calls' =
                    Observe(configure_calls,
                            [configure_calls EXCEPT ![n][pu][fg] =
                               IF NeedsConfigure(work_item, thread)
                               THEN @ + 1 ELSE @])
               /\ reset_calls' =
                    Observe(reset_calls,
                            [reset_calls EXCEPT ![n][pu][fg] =
                               IF NeedsReset(work_item, thread)
                               THEN @ + 1 ELSE @])
               /\ new_buffer_calls' =
                    Observe(new_buffer_calls,
                            AddCalls(new_buffer_calls, out.new_calls))
               /\ delete_buffer_calls' =
                    Observe(delete_buffer_calls,
                            AddCalls(delete_buffer_calls, out.delete_calls))
               /\ released' =
                    Observe(released,
                            [released EXCEPT
                               ![work_entry.work_item_index] =
                                 @ \o out.released])
               /\ batches' = Observe(batches, batches \cup out.batches)
               /\ stages' =
                    IF out.fatal
                    THEN stages
                    ELSE Handled(
                           n, "evaluate", fg, work_entry.work_item_index,
                           [pu |-> pu,
                            needs_configure |->
                              NeedsConfigure(work_item, thread),
                            needs_reset |-> NeedsReset(work_item, thread),
                            total_warmup_frames |->
                              TotalWarmupFrames(
                                work_item, fg,
                                NeedsReset(work_item, thread))])
               /\ evaluate_calls' =
                    Observe(evaluate_calls,
                            evaluate_calls \cup out.evaluate_calls)
  /\ UNCHANGED <<config, database,
                 plan, driver, load_work, save_work, load_thread,
                 save_thread, mpi, history, raw_new_calls, saved, files>>

\* an evaluate thread whose output queue feeds the next group of the next
\* processing unit instead of its own
EvalPush_Crossed(n, pu, fg) ==
  /\ eval_thread[n][pu][fg].st = "push"
  /\ IF last_evaluator_group(fg)
     THEN /\ CanPush(save_work[n])
          /\ save_work' =
               [save_work EXCEPT ![n] = Append(@, eval_thread[n][pu][fg].entry)]
          /\ NoteSavePush(n, eval_thread[n][pu][fg].entry)
          /\ UNCHANGED eval_work
     ELSE LET next_pu == (pu + 1) % PUS_PER_NODE
          IN /\ CanPush(eval_work[n][next_pu][fg])
             /\ eval_work' =
                  [eval_work EXCEPT
                     ![n][next_pu][fg] =
                        Append(@, eval_thread[n][pu][fg].entry)]
             /\ NoteEvalPush(n, next_pu, fg, eval_thread[n][pu][fg].entry)
             /\ UNCHANGED save_work
  /\ eval_thread' =
       [eval_thread EXCEPT
          ![n][pu][fg] = [@ EXCEPT !.st = "pop", !.entry = EvalSentinel]]
  /\ UNCHANGED <<config, database,
                 plan, driver, load_work, initial_eval_work,
                 load_thread, save_thread, mpi, issued, received,
                 observations>>

\* args.output_work.push(output_work_entry)
EvalPush(n, pu, fg) ==
  /\ eval_thread[n][pu][fg].st = "push"
  /\ IF last_evaluator_group(fg)
     THEN /\ CanPush(save_work[n])
          /\ save_work' =
               [save_work EXCEPT ![n] = Append(@, eval_thread[n][pu][fg].entry)]
          /\ NoteSavePush(n, eval_thread[n][pu][fg].entry)
          /\ UNCHANGED eval_work
     ELSE /\ CanPush(eval_work[n][pu][fg])
          /\ eval_work' =
               [eval_work EXCEPT
                  ![n][pu][fg] = Append(@, eval_thread[n][pu][fg].entry)]
          /\ NoteEvalPush(n, pu, fg, eval_thread[n][pu][fg].entry)
          /\ UNCHANGED save_work
  /\ eval_thread' =
       [eval_thread EXCEPT
          ![n][pu][fg] = [@ EXCEPT !.st = "pop", !.entry = EvalSentinel]]
  /\ UNCHANGED <<config, database,
                 plan, driver, load_work, initial_eval_work,
                 load_thread, save_thread, mpi, issued, received,
                 observations>>

\* ------------------------------------------------------------------------
\* save_thread
\* ------------------------------------------------------------------------
\* args.input_work.pop(work_entry): a sentinel ends the thread
SavePop(n, i) ==
  /\ save_thread[n][i].st = "pop"
  /\ CanPop(save_work[n])
  /\ save_work' = [save_work EXCEPT ![n] = Tail(@)]
  /\ save_thread' =
       [save_thread EXCEPT ![n][i] =
          IF Head(save_work[n]).work_item_index = -1
          THEN Exited
          ELSE Holding(Head(save_work[n]))]
  /\ UNCHANGED <<config, database,
                 plan, driver, load_work, initial_eval_work,
                 eval_work, load_thread, eval_thread, mpi, history,
                 observations>>

\* args.output_names.size(): the output columns that the factory of the
\* last evaluator of the chain declares
num_output_names ==
  DeclaredOutputs(
    factory_groups[Len(factory_groups)][
      Len(factory_groups[Len(factory_groups)])].behaviour)

\* job_item_output_path of a save worker that names the file after the
\* video and the column only
job_item_output_path_PerVideo(work_item, out_idx, work_item_index) ==
  [video |-> work_item.video_index, column |-> out_idx, work_item_index |-> 0]

\* `job_item_output_path(args.job_name, video_path,
\* args.output_names[out_idx], work_entry.work_item_index)`: the path of the
\* file of a column of a work item of the job
job_item_output_path(work_item, out_idx, work_item_index) ==
  [video |-> work_item.video_index, column |-> out_idx,
   work_item_index |-> work_item_index]

\* `num_frames`: the buffers of column 0 of the entry
num_frames(work_entry) ==
  IF work_entry.column_rows = <<>> THEN 0 ELSE work_entry.column_rows[1]

\* the output columns (counted from 1) for which one of the two
\* LOG(FATAL) checks of the save worker fails
WrongLength(work_entry) ==
  {c \in 1 .. num_output_names :
     work_entry.column_rows[c] # num_frames(work_entry)}

\* The files a save worker of rank n makes for work_entry, in the order of
\* the columns: every column before the first one of a wrong length gets a
\* file of num_frames sizes followed by the num_frames payloads, in the
\* order of the entry, and is saved; the file of the first column of a
\* wrong length is made and nothing is written to it.
ColumnFiles(n, work_entry) ==
  LET work_item == At(work_items, work_entry.work_item_index)
      wrong == WrongLength(work_entry)
      last == IF wrong = {} THEN num_output_names ELSE Smallest(wrong)
  IN [c \in 1 .. last |->
        [path |-> job_item_output_path(work_item, c - 1,
                                       work_entry.work_item_index),
         node |-> n,
         sizes |-> IF c \in wrong THEN 0 ELSE num_frames(work_entry),
         payloads |-> IF c \in wrong THEN <<>> ELSE work_entry.buffers,
         saved |-> c \notin wrong]]

\* the rows of the entry are written to the files of the item's columns in
\* the order the entry holds them, every buffer of a written column is
\* deleted as a CPU buffer of the entry's device id, and
\* args.retired_items++. A column whose buffer or size list is not as long
\* as column 0 ends the process instead.
SaveRetire(n, i) ==
  /\ save_thread[n][i].st = "push"
  /\ LET work_entry == save_thread[n][i].entry
         wrong == WrongLength(work_entry)
         written == IF wrong = {}
                    THEN num_output_names
                    ELSE Smallest(wrong) - 1
     IN /\ IF wrong = {}
           THEN /\ retired_items' = [retired_items EXCEPT ![n] = @ + 1]
                /\ save_thread' = [save_thread EXCEPT ![n][i] = Waiting]
                /\ stages' =
                     Handled(n, "save", 0, work_entry.work_item_index,
                             NoDecision)
           ELSE /\ UNCHANGED <<retired_items, stages>>
                /\ save_thread' = [save_thread EXCEPT ![n][i] = Failed]
        /\ saved' =
             Observe(saved,
                     [saved EXCEPT
                        ![work_entry.work_item_index] =
                          @ \o work_entry.buffers])
        /\ files' =
             Observe(files,
                     [files EXCEPT
                        ![work_entry.work_item_index] =
                          @ \o ColumnFiles(n, work_entry)])
        /\ delete_buffer_calls' =
             Observe(delete_buffer_calls,
                     AddCalls(delete_buffer_calls,
                              Calls(<<"CPU", work_entry.buffer_device_id>>,
                                    written * num_frames(work_entry))))
  /\ UNCHANGED <<config, database,
                 plan, pc, loops, accepted_items, master, next_item,
                 queues, load_thread, eval_thread, mpi, history,
                 raw_new_calls, new_buffer_calls, released, configure_calls,
                 reset_calls, batches, evaluate_calls>>

\* ------------------------------------------------------------------------
\* run_job: the shutdown sequence of a node's driver
\* ------------------------------------------------------------------------
\* the driver moves from the i-th iteration of a loop of `count` iterations
\* to the next iteration, or to the phase after the loop
LoopNext(n, count, after) ==
  IF drv_i[n] + 1 < count
  THEN /\ drv_i' = [drv_i EXCEPT ![n] = @ + 1]
       /\ pc' = pc
  ELSE /\ drv_i' = [drv_i EXCEPT ![n] = 0]
       /\ pc' = [pc EXCEPT ![n] = after]

\* PushLoadSentinel followed by the next sentinels, the joins left out
PushLoadSentinel_NoJoin(n) ==
  /\ pc[n] = "load_sentinels"
  /\ CanPush(load_work[n])
  /\ load_work' = [load_work EXCEPT ![n] = Append(@, LoadSentinel)]
  /\ NoteLoadPush(n, LoadSentinel)
  /\ LoopNext(n, LOAD_WORKERS_PER_NODE, "eval_sentinels")
  /\ UNCHANGED <<config, database,
                 plan, drv_fg, accepted_items, retired_items, master,
                 next_item, initial_eval_work, eval_work, save_work, threads,
                 mpi, issued, received,
                 observations>>

\* load_work.push(entry) with entry.work_item_index = -1
PushLoadSentinel(n) ==
  /\ pc[n] = "load_sentinels"
  /\ CanPush(load_work[n])
  /\ load_work' = [load_work EXCEPT ![n] = Append(@, LoadSentinel)]
  /\ NoteLoadPush(n, LoadSentinel)
  /\ LoopNext(n, LOAD_WORKERS_PER_NODE, "load_join")
  /\ UNCHANGED <<config, database,
                 plan, drv_fg, accepted_items, retired_items, master,
                 next_item, initial_eval_work, eval_work, save_work, threads,
                 mpi, issued, received,
                 observations>>

\* pthread_join(load_threads[i])
JoinLoad(n) ==
  /\ pc[n] = "load_join"
  /\ load_thread[n][drv_i[n]].st = "exited"
  /\ LoopNext(n, LOAD_WORKERS_PER_NODE, "eval_sentinels")
  /\ UNCHANGED <<config, database,
                 plan, drv_fg, accepted_items, retired_items, master,
                 next_item, queues, threads, mpi, history, observations>>

\* PushEvalSentinel with one sentinel per load worker, not per processing unit
PushEvalSentinel_PerLoadWorker(n) ==
  /\ pc[n] = "eval_sentinels"
  /\ CanPush(initial_eval_work[n])
  /\ initial_eval_work' =
       [initial_eval_work EXCEPT ![n] = Append(@, EvalSentinel)]
  /\ NoteInitialPush(n, EvalSentinel)
  /\ LoopNext(n, LOAD_WORKERS_PER_NODE, "eval_join")
  /\ UNCHANGED <<config, database,
                 plan, drv_fg, accepted_items, retired_items, master,
                 next_item, load_work, eval_work, save_work, threads, mpi,
                 issued, received,
                 observations>>

\* initial_eval_work.push(entry) with entry.work_item_index = -1
PushEvalSentinel(n) ==
  /\ pc[n] = "eval_sentinels"
  /\ CanPush(initial_eval_work[n])
  /\ initial_eval_work' =
       [initial_eval_work EXCEPT ![n] = Append(@, EvalSentinel)]
  /\ NoteInitialPush(n, EvalSentinel)
  /\ LoopNext(n, PUS_PER_NODE, "eval_join")
  /\ UNCHANGED <<config, database,
                 plan, drv_fg, accepted_items, retired_items, master,
                 next_item, load_work, eval_work, save_work, threads, mpi,
                 issued, received,
                 observations>>

\* the phase after all threads of group fg are joined: the sentinels of the
\* next group, or those of the save threads after the last group
AfterGroup(fg) ==
  IF fg + 1 < factory_groups_per_chain THEN "group_sentinels"
  ELSE "save_sentinels"

\* pthread_join(eval_chain_threads[i][0]); after the last one, fg = 1
JoinEval(n) ==
  /\ pc[n] = "eval_join"
  /\ eval_thread[n][drv_i[n]][0].st = "exited"
  /\ LoopNext(n, PUS_PER_NODE, AfterGroup(0))
  /\ drv_fg' = [drv_fg EXCEPT ![n] = 1]
  /\ UNCHANGED <<config, database,
                 plan, accepted_items, retired_items, master,
                 next_item, queues, threads, mpi, history, observations>>

\* eval_work[pu][fg - 1].push(entry) with entry.work_item_index = -1
PushGroupSentinel(n) ==
  /\ pc[n] = "group_sentinels"
  /\ CanPush(eval_work[n][drv_i[n]][drv_fg[n] - 1])
  /\ eval_work' =
       [eval_work EXCEPT
          ![n][drv_i[n]][drv_fg[n] - 1] = Append(@, EvalSentinel)]
  /\ NoteEvalPush(n, drv_i[n], drv_fg[n] - 1, EvalSentinel)
  /\ LoopNext(n, PUS_PER_NODE, "group_join")
  /\ UNCHANGED <<config, database,
                 plan, drv_fg, accepted_items, retired_items, master,
                 next_item, load_work, initial_eval_work, save_work, threads,
                 mpi, issued, received,
                 observations>>

\* pthread_join(eval_chain_threads[pu][fg]); after the last one, ++fg
JoinGroup(n) ==
  /\ pc[n] = "group_join"
  /\ eval_thread[n][drv_i[n]][drv_fg[n]].st = "exited"
  /\ LoopNext(n, PUS_PER_NODE, AfterGroup(drv_fg[n]))
  /\ drv_fg' = [drv_fg EXCEPT
                  ![n] = IF drv_i[n] + 1 < PUS_PER_NODE THEN @ ELSE @ + 1]
  /\ UNCHANGED <<config, database,
                 plan, accepted_items, retired_items, master,
                 next_item, queues, threads, mpi, history, observations>>

\* save_work.push(entry) with entry.work_item_index = -1
PushSaveSentinel(n) ==
  /\ pc[n] = "save_sentinels"
  /\ CanPush(save_work[n])
  /\ save_work' = [save_work EXCEPT ![n] = Append(@, EvalSentinel)]
  /\ NoteSavePush(n, EvalSentinel)
  /\ LoopNext(n, SAVE_WORKERS_PER_NODE, "save_join")
  /\ UNCHANGED <<config, database,
                 plan, drv_fg, accepted_items, retired_items, master,
                 next_item, load_work, initial_eval_work, eval_work, threads,
                 mpi, issued, received,
                 observations>>

\* JoinSave of a driver that does not wait for the save thread to return
JoinSave_NoWait(n) ==
  /\ pc[n] = "save_join"
  /\ LoopNext(n, SAVE_WORKERS_PER_NODE,
              IF is_master(n) THEN "register" ELSE "done")
  /\ UNCHANGED <<config, database,
                 plan, drv_fg, accepted_items, retired_items, master,
                 next_item, queues, threads, mpi, history, observations>>

\* pthread_join(save_threads[i]); after the last one the master goes on to
\* register the job, any other node is done
JoinSave(n) ==
  /\ pc[n] = "save_join"
  /\ save_thread[n][drv_i[n]].st = "exited"
  /\ LoopNext(n, SAVE_WORKERS_PER_NODE,
              IF is_master(n) THEN "register" ELSE "done")
  /\ UNCHANGED <<config, database,
                 plan, drv_fg, accepted_items, retired_items, master,
                 next_item, queues, threads, mpi, history, observations>>

\* `if (is_master(rank))`: the master adds the job to the database metadata
\* and writes the job descriptor, right after it has joined its own save
\* threads
RegisterJob(n) ==
  /\ is_master(n) /\ pc[n] = "register"
  /\ job_registered' = TRUE
  /\ pc' = [pc EXCEPT ![n] = "done"]
  /\ UNCHANGED <<config, plan, loops, accepted_items, retired_items, master,
                 next_item, queues, threads, mpi, history, observations>>

\* ------------------------------------------------------------------------
\* Initial states and specifications
\* ------------------------------------------------------------------------
\* the state of a job's nodes after run_job has created queues and threads
InitNodes ==
  /\ pc = [n \in Nodes |-> "distribute"]
  /\ drv_i = [n \in Nodes |-> 0]
  /\ drv_fg = [n \in Nodes |-> 0]
  /\ accepted_items = [n \in Nodes |-> 0]
  /\ retired_items = [n \in Nodes |-> 0]
  /\ next_work_item_to_allocate = 0
  /\ job_registered = FALSE
  /\ workers_done = 0
  /\ next_item = [n \in Nodes |-> 0]
  /\ load_work = [n \in Nodes |-> <<>>]
  /\ initial_eval_work = [n \in Nodes |-> <<>>]
  /\ eval_work = [n \in Nodes |->
                   [pu \in PUs |->
                     [fg \in 0 .. factory_groups_per_chain - 2 |-> <<>>]]]
  /\ save_work = [n \in Nodes |-> <<>>]
  /\ load_thread = [n \in Nodes |-> [i \in LoadWorkers |-> Waiting]]
  /\ eval_thread = [n \in Nodes |->
                     [pu \in PUs |-> [fg \in Groups |-> EvalWaiting]]]
  /\ save_thread = [n \in Nodes |-> [i \in SaveWorkers |-> Waiting]]
  /\ requests = {}
  /\ replies = [n \in Nodes |-> <<>>]
  /\ issued = <<>>
  /\ received = [n \in Nodes |-> <<>>]
  /\ sentinels_pushed =
       [n \in Nodes |->
          [load |-> 0, initial |-> 0, save |-> 0,
           eval |-> [pu \in PUs |->
                      [fg \in 0 .. factory_groups_per_chain - 2 |-> 0]]]]
  /\ raw_new_calls = 0
  /\ new_buffer_calls = [d \in Devices |-> 0]
  /\ delete_buffer_calls = [d \in Devices |-> 0]
  /\ released = [i \in 0 .. Len(work_items) - 1 |-> <<>>]
  /\ saved = [i \in 0 .. Len(work_items) - 1 |-> <<>>]
  /\ files = [i \in 0 .. Len(work_items) - 1 |-> <<>>]
  /\ stages = [i \in 0 .. Len(work_items) - 1 |-> <<>>]
  /\ configure_calls =
       [n \in Nodes |-> [pu \in PUs |-> [fg \in Groups |-> 0]]]
  /\ reset_calls =
       [n \in Nodes |-> [pu \in PUs |-> [fg \in Groups |-> 0]]]
  /\ batches = {}
  /\ evaluate_calls = {}

\* ------------------------------------------------------------------------
\* run_job: the factory groups of a chain
\* ------------------------------------------------------------------------
\* the longest chain of evaluators whose groups are derived
MaxChain == 4

\* what run_job leaves alone while it sets up the evaluate workers
job == <<num_nodes, WORK_ITEM_SIZE, LOAD_WORKERS_PER_NODE, PUS_PER_NODE,
         SAVE_WORKERS_PER_NODE, TASKS_IN_QUEUE_PER_PU, sampling, video_frames,
         video_metadata, pipeline_description, warmup_size, evaluator_caps,
         recording, tracing>>

\* `std::vector<EvaluatorFactory*> v(first, last)` over the chain, with first
\* and last counted from begin(): the factories from first up to last. A
\* range whose first lies beyond its last is undefined; it is taken here to
\* yield no factory, or to end the process.
FactoryRange(first, last) ==
  IF first <= last
  THEN {[aborted |-> FALSE,
         factories |-> SubSeq(evaluator_caps, first + 1, last)]}
  ELSE {[aborted |-> FALSE, factories |-> <<>>],
        [aborted |-> TRUE, factories |-> <<>>]}

\* the first branch: a first evaluator that can overlap is a group of its
\* own, followed by the group of the evaluators between the first and the
\* last; otherwise the first group holds all evaluators but the last
DeriveFront ==
  /\ setup = "groups"
  /\ evaluator_caps # <<>>
  /\ LET size == Len(evaluator_caps)
     IN IF evaluator_caps[1].can_overlap
        THEN \E main_factories \in FactoryRange(1, size - 1) :
               IF main_factories.aborted
               THEN /\ setup' = "aborted"
                    /\ UNCHANGED factory_groups
               ELSE /\ setup' = "back"
                    /\ factory_groups' =
                         <<<<evaluator_caps[1]>>, main_factories.factories>>
        ELSE \E main_factories \in FactoryRange(0, size - 1) :
               /\ setup' = "back"
               /\ factory_groups' = <<main_factories.factories>>
  /\ UNCHANGED <<job, factory_groups_per_chain, database, plan, driver,
                 queues, threads, mpi, history, observations>>

\* the second branch: a last evaluator that can overlap, in a chain of more
\* than one, is a group of its own; otherwise it joins the last group
DeriveBack ==
  /\ setup = "back"
  /\ LET size == Len(evaluator_caps)
         back == evaluator_caps[size]
     IN factory_groups' =
          IF size > 1 /\ back.can_overlap
          THEN Append(factory_groups, <<back>>)
          ELSE [factory_groups EXCEPT ![Len(factory_groups)] = Append(@, back)]
  /\ factory_groups_per_chain' = Len(factory_groups')
  /\ setup' = "create"
  /\ UNCHANGED <<job, database, plan, driver, queues, threads, mpi, history,
                 observations>>

\* the evaluate threads start: each instantiates the evaluators of its
\* group and asserts that there is at least one; where the assertion is
\* compiled out, the thread of an empty group goes on
CreateThreads ==
  /\ setup = "create"
  /\ \/ setup' = "threads"
     \/ /\ \E fg \in DOMAIN factory_groups : factory_groups[fg] = <<>>
        /\ setup' = "aborted"
  /\ UNCHANGED <<job, factory_groups, factory_groups_per_chain, database,
                 plan, driver, queues, threads, mpi, history, observations>>

NextGroups == DeriveFront \/ DeriveBack \/ CreateThreads

\* an evaluator of the chain: its place in the chain and whether it can
\* overlap
Factories(size) ==
  [0 .. size - 1 -> BOOLEAN]

\* run_job before the evaluate workers are set up, for every chain of
\* evaluators up to MaxChain and every choice of can_overlap
InitGroups ==
  /\ sampling = "All"
  /\ video_frames = <<>>
  /\ WORK_ITEM_SIZE = 1
  /\ pipeline_description = NoSamples
  /\ plan = PlanStart
  /\ num_nodes = 0
  /\ LOAD_WORKERS_PER_NODE = 0
  /\ PUS_PER_NODE = 0
  /\ SAVE_WORKERS_PER_NODE = 0
  /\ TASKS_IN_QUEUE_PER_PU = 0
  /\ factory_groups_per_chain = 0
  /\ warmup_size = 0
  /\ factory_groups = <<>>
  /\ \E size \in 1 .. MaxChain : \E can_overlap \in Factories(size) :
       evaluator_caps =
         [e \in 1 .. size |->
            [factory |-> e - 1, device_type |-> "CPU", behaviour |-> "rows",
             can_overlap |-> can_overlap[e - 1]]]
  /\ setup = "groups"
  /\ recording = FALSE
  /\ tracing = FALSE
  /\ video_metadata = OneKeyframe(video_frames)
  /\ InitNodes

\* run_job with the evaluate workers set up: the groups partition the chain
\* of the pipeline's evaluators, and their threads run
GroupsDerived ==
  /\ evaluator_caps = Concat(factory_groups)
  /\ setup = "threads"

\* run_job at the start of the planner: no node has started anything
InitPlanner ==
  /\ plan = PlanStart
  /\ num_nodes = 0
  /\ LOAD_WORKERS_PER_NODE = 0
  /\ PUS_PER_NODE = 0
  /\ SAVE_WORKERS_PER_NODE = 0
  /\ TASKS_IN_QUEUE_PER_PU = 0
  /\ factory_groups_per_chain = 0
  /\ warmup_size = 0
  /\ factory_groups = <<>>
  /\ evaluator_caps = <<>>
  /\ setup = "groups"
  /\ recording = FALSE
  /\ tracing = FALSE
  /\ video_metadata = OneKeyframe(video_frames)
  /\ InitNodes

\* the planner alone, on every dataset and work item size within the bounds,
\* and on the dataset of scenario S1 (one video of 100 frames, W = 32)
InitPlan ==
  /\ sampling = "All"
  /\ \/ /\ video_frames \in UNION {[1 .. v -> 0 .. MaxFrames] : v \in 0 .. MaxVideos}
        /\ WORK_ITEM_SIZE \in 1 .. MaxW
     \/ /\ video_frames = <<100>>
        /\ WORK_ITEM_SIZE = 32
  /\ pipeline_description = NoSamples
  /\ InitPlanner

\* the sets the sampling specifications are drawn from
VideoLists == UNION {[1 .. v -> 0 .. MaxFrames] : v \in 0 .. MaxVideos}

FrameLists(maxlen) ==
  UNION {[1 .. k -> 0 .. PointFrames - 1] : k \in 0 .. maxlen}

\* an Interval is half-open and not empty
Intervals ==
  {iv \in [start : 0 .. SeqFrames - 1, end : 1 .. SeqFrames] :
     iv.start < iv.end}

IntervalLists(maxlen) == UNION {[1 .. k -> Intervals] : k \in 0 .. maxlen}

\* a PointSamples value for each video and frame list
PointSamples(lists) ==
  {[video_index |-> v, frames |-> f] : v \in 0 .. SampledVideos - 1, f \in lists}

\* a SequenceSamples value for each video and interval list
SequenceSamples(lists) ==
  {[video_index |-> v, intervals |-> l] :
     v \in 0 .. SampledVideos - 1, l \in lists}

\* the job of scenario S2: 100 frames, stride 5, W = 10
InitS2 ==
  /\ sampling = "Strided"
  /\ video_frames = <<100>>
  /\ WORK_ITEM_SIZE = 10
  /\ pipeline_description = [NoSamples EXCEPT !.stride = 5]

\* the job of scenario S3: frames [0, 7, 7, 42, 99] of one video
InitS3 ==
  /\ sampling = "Gather"
  /\ video_frames = <<100>>
  /\ WORK_ITEM_SIZE \in {2, 5, 8}
  /\ pipeline_description =
       [NoSamples EXCEPT
          !.gather_points =
             <<[video_index |-> 0, frames |-> <<0, 7, 7, 42, 99>>]>>]

\* the job of scenario S4: intervals [0,10), [50,60) of one video, W = 10
InitS4 ==
  /\ sampling = "SequenceGather"
  /\ video_frames = <<100>>
  /\ WORK_ITEM_SIZE = 10
  /\ pipeline_description =
       [NoSamples EXCEPT
          !.gather_sequences =
             <<[video_index |-> 0,
                intervals |-> <<[start |-> 0, end |-> 10],
                                [start |-> 50, end |-> 60]>>]>>]

\* the planner before its first step, for every sampling variant: All and
\* Strided over up to MaxVideos videos; Gather and SequenceGather over
\* SampledVideos videos with no samples, one PointSamples / SequenceSamples,
\* or two of them (of the same video or of different videos)
InitSampling ==
  /\ \/ /\ sampling = "All"
        /\ video_frames \in VideoLists
        /\ WORK_ITEM_SIZE \in 1 .. MaxW
        /\ pipeline_description = NoSamples
     \/ /\ sampling = "Strided"
        /\ video_frames \in VideoLists
        /\ WORK_ITEM_SIZE \in 1 .. MaxW
        /\ \E stride \in 1 .. MaxStride :
             pipeline_description = [NoSamples EXCEPT !.stride = stride]
     \/ InitS2
     \/ /\ sampling = "Gather"
        /\ video_frames = [v \in 1 .. SampledVideos |-> PointFrames]
        /\ WORK_ITEM_SIZE \in 1 .. MaxW
        /\ \E points \in
               {<<>>}
                 \cup {<<a>> : a \in PointSamples(FrameLists(MaxPoints))}
                 \cup {<<a, b>> :
                         a \in PointSamples(FrameLists(MaxPoints - 1)),
                         b \in PointSamples(FrameLists(MaxPoints - 1))} :
             pipeline_description =
               [NoSamples EXCEPT !.gather_points = points]
     \/ InitS3
     \/ /\ sampling = "SequenceGather"
        /\ video_frames = [v \in 1 .. SampledVideos |-> SeqFrames]
        /\ WORK_ITEM_SIZE \in 1 .. MaxW
        /\ \E seqs \in
               {<<>>}
                 \cup {<<a>> :
                         a \in SequenceSamples(IntervalLists(MaxIntervals))}
                 \cup {<<a, b>> :
                         a \in SequenceSamples(IntervalLists(1)),
                         b \in SequenceSamples(IntervalLists(1))} :
             pipeline_description =
               [NoSamples EXCEPT !.gather_sequences = seqs]
     \/ InitS4
  /\ InitPlanner

\* a chain of count factory groups of one CPU evaluator each
CPUGroups(count) ==
  [fg \in 1 .. count |-> <<[device_type |-> "CPU", behaviour |-> "rows"]>>]

\* a job on a cluster after planning: one or two nodes, each with one load
\* worker, one processing unit with a chain of two factory groups, and one
\* save worker; the plan is that of one video, which may have no frames (an
\* empty plan)
InitCluster ==
  /\ sampling = "All"
  /\ WORK_ITEM_SIZE = 1
  /\ TASKS_IN_QUEUE_PER_PU \in 1 .. MaxTasks
  /\ num_nodes \in ClusterSizes
  /\ video_frames \in {<<0>>, <<ClusterFrames>>}
  /\ LOAD_WORKERS_PER_NODE = 1
  /\ PUS_PER_NODE = 1
  /\ SAVE_WORKERS_PER_NODE = 1
  /\ factory_groups_per_chain = 2
  /\ warmup_size = 0
  /\ factory_groups = CPUGroups(factory_groups_per_chain)
  /\ recording = FALSE
  /\ tracing = FALSE
  /\ video_metadata = OneKeyframe(video_frames)
  /\ pipeline_description = NoSamples
  /\ plan = RunPlanner(PlanStart, sampling, video_frames, WORK_ITEM_SIZE,
                       pipeline_description)
  /\ GroupsDerived
  /\ InitNodes

\* a job on a single node after planning, with every combination of worker
\* counts and factory groups
InitNode ==
  /\ sampling = "All"
  /\ WORK_ITEM_SIZE = 1
  /\ TASKS_IN_QUEUE_PER_PU = 1
  /\ num_nodes = 1
  /\ video_frames \in {<<0>>, <<NodeFrames>>}
  /\ LOAD_WORKERS_PER_NODE \in WorkerCounts
  /\ PUS_PER_NODE \in WorkerCounts
  /\ SAVE_WORKERS_PER_NODE \in WorkerCounts
  /\ factory_groups_per_chain \in GroupCounts
  /\ warmup_size = 0
  /\ factory_groups = CPUGroups(factory_groups_per_chain)
  /\ recording = FALSE
  /\ tracing = FALSE
  /\ video_metadata = OneKeyframe(video_frames)
  /\ pipeline_description = NoSamples
  /\ plan = RunPlanner(PlanStart, sampling, video_frames, WORK_ITEM_SIZE,
                       pipeline_description)
  /\ GroupsDerived
  /\ InitNodes

\* the job of scenario S5: All over one video of 40 frames, W = 16, and an
\* evaluator with a warmup of 8
InitS5 ==
  /\ sampling = "All"
  /\ video_frames = <<40>>
  /\ WORK_ITEM_SIZE = 16
  /\ pipeline_description = NoSamples
  /\ warmup_size = 8

\* small jobs of every sampling variant: two work items of one video, one
\* work item for each of two videos, a strided, a gathered and a
\* sequence-gathered video (two overlapping intervals, in one or two work
\* items each), and a video that two entries of gather_sequences name
InitSmallJob ==
  /\ \/ /\ sampling = "All"
        /\ video_frames \in {<<DataFrames>>, <<DataFrames - 1, 1>>}
        /\ WORK_ITEM_SIZE = DataFrames - 1
        /\ pipeline_description = NoSamples
     \/ /\ sampling = "Strided"
        /\ video_frames = <<DataFrames>>
        /\ WORK_ITEM_SIZE = 1
        /\ pipeline_description = [NoSamples EXCEPT !.stride = 2]
     \/ /\ sampling = "Gather"
        /\ video_frames = <<DataFrames>>
        /\ WORK_ITEM_SIZE = 2
        /\ pipeline_description =
             [NoSamples EXCEPT
                !.gather_points =
                   <<[video_index |-> 0,
                      frames |-> <<0, DataFrames - 1, DataFrames - 1>>]>>]
     \/ /\ sampling = "SequenceGather"
        /\ video_frames = <<DataFrames>>
        /\ WORK_ITEM_SIZE \in {1, 2}
        /\ pipeline_description =
             [NoSamples EXCEPT
                !.gather_sequences =
                   <<[video_index |-> 0,
                      intervals |-> <<[start |-> 0, end |-> 2],
                                      [start |-> 1, end |-> DataFrames]>>]>>]
     \/ /\ sampling = "SequenceGather"
        /\ video_frames = <<DataFrames>>
        /\ WORK_ITEM_SIZE = 1
        /\ pipeline_description =
             [NoSamples EXCEPT
                !.gather_sequences =
                   <<[video_index |-> 0,
                      intervals |-> <<[start |-> 0, end |-> 2]>>],
                     [video_index |-> 0,
                      intervals |-> <<[start |-> 0, end |-> 1],
                                      [start |-> 0, end |-> 1]>>]>>]
  /\ warmup_size \in 0 .. MaxWarmup

CPU == [device_type |-> "CPU", behaviour |-> "rows"]

GPU == [device_type |-> "GPU", behaviour |-> "rows"]

\* a CPU decode evaluator whose two output columns differ in length
Ragged == [device_type |-> "CPU", behaviour |-> "ragged"]

\* the factory groups of a chain: one or two groups, of CPU and GPU
\* evaluators
ChainShapes ==
  {<<<<CPU>>>>, <<<<GPU>>>>, <<<<CPU, GPU>>>>, <<<<CPU>>, <<CPU>>>>,
   <<<<GPU>>, <<CPU>>>>}

\* a job on a single node after planning, with what every worker decided
\* for every work item kept: a small job of any sampling on one or two
\* processing units with a chain of two factory groups
InitPolicy ==
  /\ InitSmallJob
  /\ PUS_PER_NODE \in WorkerCounts
  /\ LOAD_WORKERS_PER_NODE = 1
  /\ TASKS_IN_QUEUE_PER_PU = MaxTasks
  /\ num_nodes = 1
  /\ SAVE_WORKERS_PER_NODE = 1
  /\ factory_groups = CPUGroups(2)
  /\ factory_groups_per_chain = Len(factory_groups)
  /\ recording = FALSE
  /\ tracing = TRUE
  /\ video_metadata = OneKeyframe(video_frames)
  /\ plan = RunPlanner(PlanStart, sampling, video_frames, WORK_ITEM_SIZE,
                       pipeline_description)
  /\ GroupsDerived
  /\ InitNodes

\* a job on a single node after planning, with its rows, buffers and
\* evaluator calls observed: a small job of any sampling on one or two
\* processing units, or scenario S4 or S5 on a single chain
InitData ==
  /\ \/ /\ InitSmallJob
        /\ PUS_PER_NODE \in WorkerCounts
     \/ /\ \/ InitS4 /\ warmup_size = 0
           \/ InitS5
        /\ PUS_PER_NODE = 1
  /\ LOAD_WORKERS_PER_NODE = 1
  /\ TASKS_IN_QUEUE_PER_PU = MaxTasks
  /\ num_nodes = 1
  /\ SAVE_WORKERS_PER_NODE = 1
  /\ factory_groups \in ChainShapes
  /\ factory_groups_per_chain = Len(factory_groups)
  /\ recording = TRUE
  /\ tracing = FALSE
  /\ video_metadata = OneKeyframe(video_frames)
  /\ plan = RunPlanner(PlanStart, sampling, video_frames, WORK_ITEM_SIZE,
                       pipeline_description)
  /\ GroupsDerived
  /\ InitNodes

\* a job on a cluster of one or two nodes after planning, with its rows
\* observed: All over one video, or SequenceGather of two intervals
InitDataCluster ==
  /\ \/ /\ sampling = "All"
        /\ video_frames = <<ClusterFrames>>
        /\ WORK_ITEM_SIZE = ClusterFrames - 1
        /\ pipeline_description = NoSamples
     \/ /\ sampling = "SequenceGather"
        /\ video_frames = <<ClusterFrames>>
        /\ WORK_ITEM_SIZE = ClusterFrames
        /\ pipeline_description =
             [NoSamples EXCEPT
                !.gather_sequences =
                   <<[video_index |-> 0,
                      intervals |-> <<[start |-> 0, end |-> 1],
                                      [start |-> 1, end |-> ClusterFrames]>>]>>]
  /\ warmup_size \in 0 .. MaxWarmup
  /\ TASKS_IN_QUEUE_PER_PU = 1
  /\ num_nodes \in ClusterSizes
  /\ LOAD_WORKERS_PER_NODE \in WorkerCounts
  /\ PUS_PER_NODE \in WorkerCounts
  /\ SAVE_WORKERS_PER_NODE = 1
  /\ factory_groups = <<<<CPU>>>>
  /\ factory_groups_per_chain = Len(factory_groups)
  /\ recording = TRUE
  /\ tracing = FALSE
  /\ video_metadata = OneKeyframe(video_frames)
  /\ plan = RunPlanner(PlanStart, sampling, video_frames, WORK_ITEM_SIZE,
                       pipeline_description)
  /\ GroupsDerived
  /\ InitNodes

\* a job on a cluster of one or two nodes after planning, with the files of
\* its save workers observed: All over one video in two work items, through
\* one evaluator, a chain of two groups, or a decode evaluator whose two
\* output columns differ in length
InitFiles ==
  /\ sampling = "All"
  /\ video_frames = <<ClusterFrames>>
  /\ WORK_ITEM_SIZE = ClusterFrames - 1
  /\ pipeline_description = NoSamples
  /\ warmup_size = 0
  /\ TASKS_IN_QUEUE_PER_PU = 1
  /\ num_nodes \in ClusterSizes
  /\ LOAD_WORKERS_PER_NODE = 1
  /\ PUS_PER_NODE = 1
  /\ SAVE_WORKERS_PER_NODE \in WorkerCounts
  /\ factory_groups \in {<<<<CPU>>>>, <<<<CPU>>, <<CPU>>>>, <<<<Ragged>>>>}
  /\ factory_groups_per_chain = Len(factory_groups)
  /\ recording = TRUE
  /\ tracing = TRUE
  /\ video_metadata = OneKeyframe(video_frames)
  /\ plan = RunPlanner(PlanStart, sampling, video_frames, WORK_ITEM_SIZE,
                       pipeline_description)
  /\ GroupsDerived
  /\ InitNodes

\* the frames of the longer video of the jobs whose decoder emits warmup
FanOutFrames == 4

\* a CPU decode evaluator that emits the warmup frames ahead of every read
\* interval
Warming == [device_type |-> "CPU", behaviour |-> "warmup"]

\* a job on a single node after planning whose decode evaluator emits
\* warmup frames, with its rows, batches and evaluator calls observed: All
\* over one video, in chains of one or two factory groups on one or two
\* processing units
InitFanOut ==
  /\ sampling = "All"
  /\ \/ /\ video_frames = <<FanOutFrames>>
        /\ WORK_ITEM_SIZE = FanOutFrames \div 2
     \/ /\ video_frames = <<FanOutFrames \div 2>>
        /\ WORK_ITEM_SIZE = 1
  /\ pipeline_description = NoSamples
  /\ warmup_size \in 0 .. MaxWarmup
  /\ TASKS_IN_QUEUE_PER_PU = MaxTasks
  /\ num_nodes = 1
  /\ LOAD_WORKERS_PER_NODE = 1
  /\ PUS_PER_NODE \in WorkerCounts
  /\ SAVE_WORKERS_PER_NODE = 1
  /\ factory_groups \in
       {<<<<Warming>>>>, <<<<Warming>>, <<CPU>>>>, <<<<Warming, GPU>>, <<CPU>>>>,
        <<<<CPU>>, <<CPU>>>>}
  /\ factory_groups_per_chain = Len(factory_groups)
  /\ recording = TRUE
  /\ tracing = FALSE
  /\ video_metadata = OneKeyframe(video_frames)
  /\ plan = RunPlanner(PlanStart, sampling, video_frames, WORK_ITEM_SIZE,
                       pipeline_description)
  /\ GroupsDerived
  /\ InitNodes

\* CPU evaluators that break the contract of evaluate()
ExtraRow == [device_type |-> "CPU", behaviour |-> "extra_row"]

ExtraColumn == [device_type |-> "CPU", behaviour |-> "extra_column"]

SizesShort == [device_type |-> "CPU", behaviour |-> "sizes_short"]

\* chains with an evaluator that breaks the contract, at the head of the
\* first group, further down in a group, or at the head of a later group
ContractShapes ==
  {<<<<CPU>>>>, <<<<ExtraRow>>>>, <<<<CPU, ExtraRow>>>>, <<<<CPU>>, <<ExtraRow>>>>,
   <<<<ExtraRow, CPU>>, <<CPU>>>>, <<<<CPU, ExtraColumn>>>>,
   <<<<ExtraRow, CPU>>, <<ExtraRow>>>>, <<<<CPU>>, <<ExtraColumn, CPU>>>>,
   <<<<SizesShort>>>>, <<<<CPU>>, <<CPU, SizesShort>>>>}

\* a job on a single node after planning in which an evaluator may break
\* the contract of evaluate(): All over one or two videos, on one or two
\* processing units
InitContract ==
  /\ sampling = "All"
  /\ video_frames \in {<<DataFrames>>, <<DataFrames - 1, 1>>}
  /\ WORK_ITEM_SIZE = DataFrames - 1
  /\ pipeline_description = NoSamples
  /\ warmup_size = 0
  /\ TASKS_IN_QUEUE_PER_PU = MaxTasks
  /\ num_nodes = 1
  /\ LOAD_WORKERS_PER_NODE = 1
  /\ PUS_PER_NODE \in WorkerCounts
  /\ SAVE_WORKERS_PER_NODE = 1
  /\ factory_groups \in ContractShapes
  /\ factory_groups_per_chain = Len(factory_groups)
  /\ recording = TRUE
  /\ tracing = FALSE
  /\ video_metadata = OneKeyframe(video_frames)
  /\ plan = RunPlanner(PlanStart, sampling, video_frames, WORK_ITEM_SIZE,
                       pipeline_description)
  /\ GroupsDerived
  /\ InitNodes

\* the elements of a set of integers in increasing order
Sorted(S) ==
  CHOOSE f \in [1 .. Cardinality(S) -> S] :
    \A i \in 1 .. Cardinality(S) : \A j \in 1 .. Cardinality(S) :
      i < j => f[i] < f[j]

\* the byte offsets of keyframes that are sizes[1], sizes[2], ... bytes apart
RECURSIVE OffsetsOf(_)
OffsetsOf(sizes) ==
  IF sizes = <<>>
  THEN <<>>
  ELSE <<0>> \o [k \in 1 .. Len(sizes) - 1 |->
                   Head(sizes) + OffsetsOf(Tail(sizes))[k]]

\* The metadata a video of `frames` frames can have: frame 0 and any other
\* frames are keyframes, the keyframes are 1 .. MaxGopBytes bytes apart, and
\* the file ends where the last group of pictures ends.
Metadata(frames) ==
  {[keyframe_positions |-> Sorted({0} \cup K),
    keyframe_byte_offsets |-> OffsetsOf(sizes),
    file_size |-> SumSeq(sizes)] :
     <<K, sizes>> \in
       UNION {{<<K, sizes>> :
                 sizes \in [1 .. Cardinality(K) + 1 -> 1 .. MaxGopBytes]} :
              K \in SUBSET (1 .. frames - 1)}}

\* a job on a single node after planning, over one video with keyframes: a
\* SequenceGather of any one interval of the video, a Gather of its first
\* and last frame, or the whole video with sampling All or Strided
InitLoad ==
  /\ video_frames = <<LoadFrames>>
  /\ video_metadata \in [1 .. 1 -> Metadata(LoadFrames)]
  /\ \/ /\ sampling = "SequenceGather"
        /\ WORK_ITEM_SIZE = LoadFrames
        /\ \E interval \in
               {iv \in [start : 0 .. LoadFrames - 1, end : 1 .. LoadFrames] :
                  iv.start < iv.end} :
             pipeline_description =
               [NoSamples EXCEPT
                  !.gather_sequences =
                     <<[video_index |-> 0, intervals |-> <<interval>>]>>]
     \/ /\ sampling = "Gather"
        /\ WORK_ITEM_SIZE = 2
        /\ pipeline_description =
             [NoSamples EXCEPT
                !.gather_points =
                   <<[video_index |-> 0, frames |-> <<0, LoadFrames - 1>>]>>]
     \/ /\ sampling = "All"
        /\ WORK_ITEM_SIZE = 2
        /\ pipeline_description = NoSamples
     \/ /\ sampling = "Strided"
        /\ WORK_ITEM_SIZE = 1
        /\ pipeline_description = [NoSamples EXCEPT !.stride = 2]
  /\ warmup_size = 0
  /\ TASKS_IN_QUEUE_PER_PU = 1
  /\ num_nodes = 1
  /\ LOAD_WORKERS_PER_NODE = 1
  /\ PUS_PER_NODE = 1
  /\ SAVE_WORKERS_PER_NODE = 1
  /\ factory_groups = <<<<CPU>>>>
  /\ factory_groups_per_chain = Len(factory_groups)
  /\ recording = FALSE
  /\ tracing = FALSE
  /\ plan = RunPlanner(PlanStart, sampling, video_frames, WORK_ITEM_SIZE,
                       pipeline_description)
  /\ GroupsDerived
  /\ InitNodes

\* a job on a single node after planning, over one video with keyframes,
\* whose description names frames that the video may not have: a
\* SequenceGather of one interval that starts or ends up to one frame outside
\* the video, or a Gather of one such frame
InitBracket ==
  /\ video_frames = <<LoadFrames>>
  /\ video_metadata \in [1 .. 1 -> Metadata(LoadFrames)]
  /\ WORK_ITEM_SIZE = LoadFrames + 2
  /\ \/ /\ sampling = "SequenceGather"
        /\ \E interval \in
               {iv \in [start : -1 .. LoadFrames, end : 0 .. LoadFrames + 1] :
                  iv.start < iv.end} :
             pipeline_description =
               [NoSamples EXCEPT
                  !.gather_sequences =
                     <<[video_index |-> 0, intervals |-> <<interval>>]>>]
     \/ /\ sampling = "Gather"
        /\ \E f \in -1 .. LoadFrames :
             pipeline_description =
               [NoSamples EXCEPT
                  !.gather_points =
                     <<[video_index |-> 0, frames |-> <<f>>]>>]
  /\ warmup_size = 0
  /\ TASKS_IN_QUEUE_PER_PU = 1
  /\ num_nodes = 1
  /\ LOAD_WORKERS_PER_NODE = 1
  /\ PUS_PER_NODE = 1
  /\ SAVE_WORKERS_PER_NODE = 1
  /\ factory_groups = <<<<CPU>>>>
  /\ factory_groups_per_chain = Len(factory_groups)
  /\ recording = FALSE
  /\ tracing = FALSE
  /\ plan = RunPlanner(PlanStart, sampling, video_frames, WORK_ITEM_SIZE,
                       pipeline_description)
  /\ GroupsDerived
  /\ InitNodes

NextPlan == Planner

\* the request loop of a non-master node
WorkerLoop(n) ==
  \/ WorkerRequest(n)
  \/ WorkerReceive(n)
  \/ WorkerAccept(n)
  \/ ~is_master(n) /\ CountAccepted(n)

\* the shutdown sequence of a node
Shutdown(n) ==
  \/ PushLoadSentinel(n)
  \/ JoinLoad(n)
  \/ PushEvalSentinel(n)
  \/ JoinEval(n)
  \/ PushGroupSentinel(n)
  \/ JoinGroup(n)
  \/ PushSaveSentinel(n)
  \/ JoinSave(n)
  \/ RegisterJob(n)

\* the master's loops as far as they run without another node
MasterAlone ==
  \/ MasterAccept
  \/ CountAccepted(0)
  \/ MasterExhausted
  \/ MasterDrained

\* the master's exchanges with the worker nodes
MasterServing ==
  \/ MasterWait
  \/ MasterServe
  \/ MasterDrain

Master == MasterAlone \/ MasterServing

LoadThread(n, i) == LoadPop(n, i) \/ LoadPush(n, i)

EvalThread(n, pu, fg) == EvalPop(n, pu, fg) \/ EvalPush(n, pu, fg)

SaveThread(n, i) == SavePop(n, i) \/ SaveRetire(n, i)

\* the driver thread of node n
Driver(n) ==
  \/ is_master(n) /\ Master
  \/ WorkerLoop(n)
  \/ Shutdown(n)

\* LOG(FATAL) or a failed assert in a thread of rank n ends the process of
\* rank n: no thread of it takes another step
Running(n) ==
  /\ \A i \in LoadWorkers : load_thread[n][i].st # "fatal"
  /\ \A i \in SaveWorkers : save_thread[n][i].st # "fatal"
  /\ \A pu \in PUs : \A fg \in Groups : eval_thread[n][pu][fg].st # "fatal"

\* the worker threads of the nodes
Threads ==
  \/ \E n \in Nodes : \E i \in LoadWorkers : Running(n) /\ LoadThread(n, i)
  \/ \E n \in Nodes : \E pu \in PUs : \E fg \in Groups :
       Running(n) /\ EvalThread(n, pu, fg)
  \/ \E n \in Nodes : \E i \in SaveWorkers : Running(n) /\ SaveThread(n, i)

Next ==
  \/ Running(0) /\ MasterAlone
  \/ Running(0) /\ MasterServing
  \/ \E n \in Nodes : Running(n) /\ WorkerLoop(n)
  \/ \E n \in Nodes : Running(n) /\ Shutdown(n)
  \/ Threads

\* a job with a single node: the steps that need a second node cannot occur
NextNode ==
  \/ Running(0) /\ MasterAlone
  \/ Running(0) /\ Shutdown(0)
  \/ Threads

\* a single node with its rows, buffers and evaluator calls observed
SpecData == InitData /\ [][NextNode]_vars

\* a single node with the decisions of its workers kept
SpecPolicy == InitPolicy /\ [][NextNode]_vars

\* a single node whose decode evaluator emits warmup frames
SpecFanOut == InitFanOut /\ [][NextNode]_vars

\* a single node with evaluators that may break the contract of evaluate()
SpecContract == InitContract /\ [][NextNode]_vars

\* the derivation of the factory groups alone
SpecGroups == InitGroups /\ [][NextGroups]_vars

\* a single node that loads from videos with keyframes
SpecLoad == InitLoad /\ [][NextNode]_vars

\* a single node that is asked for frames inside and outside a video
SpecBracket == InitBracket /\ [][NextNode]_vars

\* a cluster with its rows observed
SpecDataCluster == InitDataCluster /\ [][Next]_vars

\* a cluster with its output files observed
SpecFiles == InitFiles /\ [][Next]_vars

\* the planner on its own
SpecPlan == InitPlan /\ [][NextPlan]_vars

\* the planner on its own, for every sampling variant
SpecSampling == InitSampling /\ [][NextPlan]_vars

\* a job on a cluster
Spec == InitCluster /\ [][Next]_vars

\* a job on a single node
SpecNode == InitNode /\ [][NextNode]_vars

\* every rank, worker index and group index that occurs in some run
Largest(S) == CHOOSE m \in S : \A k \in S : k <= m

NodeIds == 0 .. Largest(ClusterSizes) - 1

WorkerIds == 0 .. Largest(WorkerCounts) - 1

GroupIds == 0 .. Largest(GroupCounts) - 1

\* Every thread is an OS thread of its own and is scheduled as long as it can
\* run: weak fairness of every driver and of every worker thread. A message
\* in flight is delivered once the receiver waits in MPI_Recv, which is a
\* step of the receiving driver.
Fairness ==
  \A n \in NodeIds :
    /\ WF_vars(n \in Nodes /\ Driver(n))
    /\ \A i \in WorkerIds :
         WF_vars(n \in Nodes /\ i \in LoadWorkers /\ LoadThread(n, i))
    /\ \A pu \in WorkerIds : \A fg \in GroupIds :
         WF_vars(n \in Nodes /\ pu \in PUs /\ fg \in Groups
                 /\ EvalThread(n, pu, fg))
    /\ \A i \in WorkerIds :
         WF_vars(n \in Nodes /\ i \in SaveWorkers /\ SaveThread(n, i))

FairSpec == Spec /\ Fairness

FairSpecNode == SpecNode /\ Fairness

\* ------------------------------------------------------------------------
\* Properties
\* ------------------------------------------------------------------------
\* the part of a LoadWorkEntry that load_video_thread reads under the job's
\* sampling
SamplingPayload(e) ==
  CASE sampling = "All" -> <<e.interval>>
    [] sampling = "Strided" -> <<e.strided.interval, e.strided.stride>>
    [] sampling = "Gather" -> <<e.gather_points>>
    [] OTHER -> <<e.gather_sequences>>

\* the driver of node n is still in its work-distribution loops
Distributing(n) ==
  pc[n] \in {"distribute", "recv", "drain", "wait_reply", "push_work",
            "count"}

WorkerNodes == Nodes \ {0}

\* the sequence positions of the entries of seq that satisfy Test
Count(seq, Test(_)) == Cardinality({k \in 1 .. Len(seq) : Test(seq[k])})

\* C1: every entry with a work-item index that a non-master node has pushed
\* into its load queue carries the sampling payload of the planned
\* load_work_items entry of that index.
C1_WorkerEntryCarriesPlannedPayload ==
  \A n \in WorkerNodes : \A k \in 1 .. Len(load_work[n]) :
    LET e == load_work[n][k]
    IN ~IsSentinel(e) =>
         SamplingPayload(e) =
           SamplingPayload(At(load_work_items, e.work_item_index))

\* C2: the master issues the indices 0, 1, ... in increasing order without
\* gaps, never beyond the plan, and every index issued so far was handed to
\* exactly one recipient (its own load queue or one reply to one worker).
C2_IssuedInOrderExactlyOnce ==
  /\ Len(issued) = next_work_item_to_allocate
  /\ next_work_item_to_allocate <= Len(work_items)
  /\ \A k \in 1 .. Len(issued) : issued[k].item = k - 1
  /\ \A i \in 0 .. Len(work_items) - 1 :
       LET IsI(r) == r.item = i
       IN Count(issued, IsI) = IF i < next_work_item_to_allocate THEN 1 ELSE 0
  /\ \A n \in WorkerNodes :
       \* what was sent to a worker is what the log says, in order
       LET ToN(r) == r.to = n
           sent == SelectSeq(issued, ToN)
           Index(m) == m # -1
           got == SelectSeq(received[n] \o replies[n], Index)
       IN /\ Len(got) = Len(sent)
          /\ \A k \in 1 .. Len(got) : got[k] = sent[k].item

\* C2 witness: the whole plan was issued, part of it to the master itself and
\* part of it to the worker node.
C2_Witness ==
  /\ num_nodes = 2
  /\ Len(work_items) = ClusterFrames
  /\ next_work_item_to_allocate = Len(work_items)
  /\ \E j, k \in 1 .. Len(issued) : issued[j].to = 0 /\ issued[k].to = 1

\* C3: on every node accepted_items - retired_items never exceeds
\* PUS_PER_NODE * TASKS_IN_QUEUE_PER_PU.
C3_BacklogNeverExceedsThreshold ==
  \A n \in Nodes : local_work(n) <= Threshold

\* C3 witness: a worker node whose backlog is at the threshold again after
\* its save worker has retired an item.
C3_Witness ==
  \E n \in WorkerNodes :
    /\ retired_items[n] > 0
    /\ local_work(n) = Threshold

\* C4 as stated: accepted_items - retired_items is strictly below the
\* threshold in every state, also right after the driver accepted an item.
C4_BacklogStrictlyBelowThreshold ==
  \A n \in Nodes : local_work(n) < Threshold

\* C4 amended: a driver accepts an item only in a state in which
\* accepted_items - retired_items is strictly below the threshold; the
\* acceptance raises the difference by one, so that it can reach the
\* threshold but not pass it.
C4_AcceptsOnlyBelowThreshold ==
  [][\A n \in Nodes :
       accepted_items'[n] # accepted_items[n] =>
         /\ local_work(n) < Threshold
         /\ accepted_items'[n] = accepted_items[n] + 1
         /\ accepted_items'[n] - retired_items'[n] <= Threshold]_vars

\* C4 witness: the master has just accepted the item that fills its backlog
\* to the threshold of two.
C4_Witness ==
  /\ Threshold = 2
  /\ 0 \in Nodes /\ accepted_items[0] = 2 /\ retired_items[0] = 0
  /\ pc[0] = "distribute"

\* the replies with value -1 among a node's received replies
IsDone(m) == m = -1

\* C5, the part that holds as stated: a -1 is sent only when every planned
\* index has been issued; a worker node in its request loop has received no
\* -1, a worker node past it has received exactly one -1, as its last
\* message, and nothing more is in flight to it.
C5_DoneReplies ==
  \A n \in WorkerNodes :
    /\ Count(received[n] \o replies[n], IsDone) > 0 =>
         next_work_item_to_allocate = Len(work_items)
    /\ Count(received[n] \o replies[n], IsDone) <= 1
    /\ Distributing(n) => Count(received[n], IsDone) = 0
    /\ ~Distributing(n) =>
         /\ Count(received[n], IsDone) = 1
         /\ received[n][Len(received[n])] = -1
         /\ replies[n] = <<>>

\* C5 as stated: ... and the master's driver leaves its distribution phase
\* only after every worker node has received its -1.
C5_MasterLeavesAfterAllReceived ==
  /\ C5_DoneReplies
  /\ (0 \in Nodes /\ ~Distributing(0)) =>
       \A n \in WorkerNodes : Count(received[n], IsDone) = 1

\* C5 amended: ... and the master's driver leaves its distribution phase only
\* after it has sent a -1 to every worker node (the -1 may still be in
\* flight when the master leaves).
C5_MasterLeavesAfterAllSent ==
  /\ C5_DoneReplies
  /\ (0 \in Nodes /\ ~Distributing(0)) =>
       \A n \in WorkerNodes : Count(received[n] \o replies[n], IsDone) = 1

\* C5 witness: the master has left its distribution phase and the worker
\* node has received indices and then its -1.
C5_Witness ==
  /\ num_nodes = 2
  /\ ~Distributing(0)
  /\ Len(received[1]) > 1
  /\ received[1][Len(received[1])] = -1

\* every worker thread of node n has returned
AllExited(n) ==
  /\ \A i \in LoadWorkers : load_thread[n][i].st = "exited"
  /\ \A pu \in PUs : \A fg \in Groups : eval_thread[n][pu][fg].st = "exited"
  /\ \A i \in SaveWorkers : save_thread[n][i].st = "exited"

C7_ShutdownCompletes ==
  \A n \in NodeIds :
    (n \in Nodes /\ pc[n] = "load_sentinels")
      ~> (n \in Nodes /\ pc[n] = "done" /\ AllExited(n))

\* C7 witness: a node with two load workers, two processing units, three
\* factory groups and two save workers has completed its shutdown.
C7_Witness ==
  /\ LOAD_WORKERS_PER_NODE = 2 /\ PUS_PER_NODE = 2
  /\ factory_groups_per_chain = 3 /\ SAVE_WORKERS_PER_NODE = 2
  /\ Len(work_items) > 0
  /\ pc[0] = "done" /\ AllExited(0)

\* no entry of queue q that follows a sentinel is a real entry
SentinelsLast(q) ==
  \A j, k \in 1 .. Len(q) : (j < k /\ IsSentinel(q[j])) => IsSentinel(q[k])

HasReal(q) == \E k \in 1 .. Len(q) : ~IsSentinel(q[k])

\* a real entry is in the load stage of node n: on its way into the load
\* queue, in it, or held by a load thread
RealInLoadStage(n) ==
  \/ Distributing(n)
  \/ HasReal(load_work[n])
  \/ \E i \in LoadWorkers : load_thread[n][i].st = "push"

\* a real entry is upstream of the evaluate thread (pu, fg) of node n
RealUpstreamOfEval(n, pu, fg) ==
  \/ RealInLoadStage(n)
  \/ HasReal(initial_eval_work[n])
  \/ \E g \in 0 .. fg - 1 :
       \/ eval_thread[n][pu][g].st = "push"
       \/ HasReal(eval_work[n][pu][g])

\* a real entry is upstream of the save threads of node n
RealUpstreamOfSave(n) ==
  \/ HasReal(save_work[n])
  \/ \E pu \in PUs :
       \/ RealUpstreamOfEval(n, pu, factory_groups_per_chain - 1)
       \/ eval_thread[n][pu][factory_groups_per_chain - 1].st = "push"

\* the driver of node n has joined every load thread
JoinedLoad(n) ==
  /\ ~Distributing(n) /\ pc[n] \notin {"load_sentinels", "load_join"}
  /\ \A i \in LoadWorkers : load_thread[n][i].st = "exited"

\* the driver of node n has joined every evaluate thread of group fg
JoinedGroup(n, fg) ==
  /\ JoinedLoad(n) /\ pc[n] \notin {"eval_sentinels", "eval_join"}
  /\ pc[n] \in {"group_sentinels", "group_join"} => drv_fg[n] > fg
  /\ \A pu \in PUs : eval_thread[n][pu][fg].st = "exited"

\* C8: a queue gets its sentinels only after the driver has joined every
\* thread of the preceding stage (and has left the distribution loops before
\* the load sentinels); so no queue holds a real entry behind a sentinel, and
\* no worker has returned while a real entry for its stage is upstream.
C8_StagesDrainedInOrder ==
  \A n \in Nodes :
    /\ sentinels_pushed[n].load > 0 => ~Distributing(n)
    /\ sentinels_pushed[n].initial > 0 => JoinedLoad(n)
    /\ \A pu \in PUs : \A fg \in 0 .. factory_groups_per_chain - 2 :
         sentinels_pushed[n].eval[pu][fg] > 0 => JoinedGroup(n, fg)
    /\ sentinels_pushed[n].save > 0 =>
         JoinedGroup(n, factory_groups_per_chain - 1)
    /\ SentinelsLast(load_work[n])
    /\ SentinelsLast(initial_eval_work[n])
    /\ SentinelsLast(save_work[n])
    /\ \A pu \in PUs : \A fg \in 0 .. factory_groups_per_chain - 2 :
         SentinelsLast(eval_work[n][pu][fg])
    /\ \A i \in LoadWorkers :
         load_thread[n][i].st = "exited" =>
           ~Distributing(n) /\ ~HasReal(load_work[n])
    /\ \A pu \in PUs : \A fg \in Groups :
         eval_thread[n][pu][fg].st = "exited" => ~RealUpstreamOfEval(n, pu, fg)
    /\ \A i \in SaveWorkers :
         save_thread[n][i].st = "exited" => ~RealUpstreamOfSave(n)

\* C8 witness: the sentinel of a later factory group is in its queue while a
\* real entry is still downstream of it, on its way to the save threads.
C8_Witness ==
  /\ factory_groups_per_chain = 3
  /\ \E pu \in PUs :
       /\ eval_work[0][pu][1] = <<EvalSentinel>>
       /\ \/ HasReal(save_work[0])
          \/ \E p \in PUs : eval_thread[0][p][2].st = "push"

NumSentinels(q) == Count(q, IsSentinel)

NumExited(thr) == Cardinality({i \in DOMAIN thr : thr[i].st = "exited"})

\* C9: each queue is given at most as many sentinels as it has consumer
\* threads, and exactly as many once the driver is done; each sentinel pushed
\* is either still in its queue or was consumed by one thread that returned
\* on it; no worker holds a sentinel to forward it; at the end of the job
\* every worker has returned and every queue is empty.
C9_OneSentinelPerConsumer ==
  \A n \in Nodes :
    /\ sentinels_pushed[n].load <= LOAD_WORKERS_PER_NODE
    /\ sentinels_pushed[n].initial <= PUS_PER_NODE
    /\ sentinels_pushed[n].save <= SAVE_WORKERS_PER_NODE
    /\ \A pu \in PUs : \A fg \in 0 .. factory_groups_per_chain - 2 :
         /\ sentinels_pushed[n].eval[pu][fg] <= 1
         /\ sentinels_pushed[n].eval[pu][fg] =
              NumSentinels(eval_work[n][pu][fg])
                + (IF eval_thread[n][pu][fg + 1].st = "exited" THEN 1 ELSE 0)
    /\ sentinels_pushed[n].load =
         NumSentinels(load_work[n]) + NumExited(load_thread[n])
    /\ sentinels_pushed[n].initial =
         NumSentinels(initial_eval_work[n])
           + Cardinality({pu \in PUs : eval_thread[n][pu][0].st = "exited"})
    /\ sentinels_pushed[n].save =
         NumSentinels(save_work[n]) + NumExited(save_thread[n])
    /\ \A i \in LoadWorkers :
         load_thread[n][i].st = "push" => ~IsSentinel(load_thread[n][i].entry)
    /\ \A pu \in PUs : \A fg \in Groups :
         eval_thread[n][pu][fg].st = "push" =>
           ~IsSentinel(eval_thread[n][pu][fg].entry)
    /\ \A i \in SaveWorkers :
         save_thread[n][i].st = "push" => ~IsSentinel(save_thread[n][i].entry)
    /\ pc[n] = "done" =>
         /\ sentinels_pushed[n].load = LOAD_WORKERS_PER_NODE
         /\ sentinels_pushed[n].initial = PUS_PER_NODE
         /\ sentinels_pushed[n].save = SAVE_WORKERS_PER_NODE
         /\ \A pu \in PUs : \A fg \in 0 .. factory_groups_per_chain - 2 :
              sentinels_pushed[n].eval[pu][fg] = 1
         /\ AllExited(n)
         /\ load_work[n] = <<>> /\ initial_eval_work[n] = <<>>
         /\ save_work[n] = <<>>
         /\ \A pu \in PUs : \A fg \in 0 .. factory_groups_per_chain - 2 :
              eval_work[n][pu][fg] = <<>>

\* C9 witness: a job with several consumers on every shared queue is done
\* after both of its work items went through the pipeline.
C9_Witness ==
  /\ num_nodes = 1 /\ pc[0] = "done"
  /\ LOAD_WORKERS_PER_NODE = 2 /\ PUS_PER_NODE = 2
  /\ factory_groups_per_chain = 2 /\ SAVE_WORKERS_PER_NODE = 2
  /\ retired_items[0] = NodeFrames

\* ------------------------------------------------------------------------
\* Properties of the planner
\* ------------------------------------------------------------------------
\* the positions in work_items of the items of video v, in order
PositionsOf(v) ==
  LET IsV(j) == work_items[j].video_index = v
  IN SelectSeq([j \in 1 .. Len(work_items) |-> j], IsV)

\* the outer loop of the planner is past video v
Planned(v) == plan.done \/ plan.video > v

\* C10: under sampling All the items of a video with F frames are, in order,
\* item k with item_id = k * W, next_item_id = item_id + chunk size,
\* rows_from_start = item_id and the load interval [item_id, next_item_id);
\* every chunk has W frames except that the last one may have F - k * W; a
\* fully planned video has ceil(F / W) items, whose intervals tile [0, F).
C10_AllChunks ==
  sampling = "All" =>
    /\ Len(load_work_items) = Len(work_items)
    /\ \A j, k \in 1 .. Len(work_items) :
         j < k => work_items[j].video_index <= work_items[k].video_index
    /\ \A v \in 0 .. Len(video_frames) - 1 :
         LET F == At(video_frames, v)
             W == WORK_ITEM_SIZE
             pos == PositionsOf(v)
         IN /\ \A k \in 0 .. Len(pos) - 1 :
                 LET item == work_items[At(pos, k)]
                     load_item == load_work_items[At(pos, k)]
                     chunk_size == IF (k + 1) * W <= F THEN W ELSE F - k * W
                 IN /\ chunk_size > 0
                    /\ item.item_id = k * W
                    /\ item.next_item_id = item.item_id + chunk_size
                    /\ item.rows_from_start = item.item_id
                    /\ load_item.work_item_index = At(pos, k) - 1
                    /\ load_item.interval =
                         [start |-> item.item_id, end |-> item.next_item_id]
            /\ Len(pos) <= CeilDiv(F, W)
            /\ Planned(v) =>
                 /\ Len(pos) = CeilDiv(F, W)
                 /\ \A f \in 0 .. F - 1 :
                      Cardinality(
                        {k \in 1 .. Len(pos) :
                           /\ load_work_items[pos[k]].interval.start <= f
                           /\ f < load_work_items[pos[k]].interval.end}) = 1

\* C10 witness: scenario S1, one video of 100 frames with W = 32, is planned
\* as four items of 32, 32, 32 and 4 frames.
C10_Witness ==
  /\ plan.done /\ sampling = "All"
  /\ video_frames = <<100>> /\ WORK_ITEM_SIZE = 32
  /\ Len(work_items) = 4
  /\ [k \in 1 .. 4 |-> work_items[k].next_item_id - work_items[k].item_id]
       = <<32, 32, 32, 4>>

\* C11: under sampling Strided with stride s the items of a video with F
\* frames are, in order, item k with item_id = k * W * s (a multiple of s),
\* next_item_id = item_id + chunk size, rows_from_start = item_id / s, and a
\* load entry that carries the stride and the interval
\* [item_id, next_item_id); every chunk has at most W * s encoded frames and
\* selects at most W output rows; the intervals of a fully planned video
\* tile [0, F).
C11_StridedChunks ==
  sampling = "Strided" =>
    /\ Len(load_work_items) = Len(work_items)
    /\ \A v \in 0 .. Len(video_frames) - 1 :
         LET F == At(video_frames, v)
             W == WORK_ITEM_SIZE
             s == pipeline_description.stride
             pos == PositionsOf(v)
         IN /\ \A k \in 0 .. Len(pos) - 1 :
                 LET item == work_items[At(pos, k)]
                     load_item == load_work_items[At(pos, k)]
                     chunk_size ==
                       IF (k + 1) * W * s <= F THEN W * s ELSE F - k * W * s
                 IN /\ chunk_size > 0 /\ chunk_size <= W * s
                    /\ item.item_id = k * W * s
                    /\ item.item_id % s = 0
                    /\ item.next_item_id = item.item_id + chunk_size
                    /\ item.rows_from_start * s = item.item_id
                    /\ load_item.work_item_index = At(pos, k) - 1
                    /\ load_item.strided =
                         [stride |-> s,
                          interval |-> [start |-> item.item_id,
                                        end |-> item.next_item_id]]
                    /\ Len(SelectedFrames(load_item, sampling)) <= W
            /\ Planned(v) =>
                 /\ Len(pos) = CeilDiv(F, W * s)
                 /\ \A f \in 0 .. F - 1 :
                      Cardinality(
                        {k \in 1 .. Len(pos) :
                           LET iv == load_work_items[pos[k]].strided.interval
                           IN iv.start <= f /\ f < iv.end}) = 1

\* C11 witness: scenario S2, one video of 100 frames with stride 5 and
\* W = 10, is planned as two items with rows_from_start 0 and 10 that select
\* 20 output rows.
C11_Witness ==
  /\ plan.done /\ sampling = "Strided"
  /\ video_frames = <<100>> /\ WORK_ITEM_SIZE = 10
  /\ pipeline_description.stride = 5
  /\ [k \in 1 .. Len(work_items) |-> work_items[k].rows_from_start]
       = <<0, 10>>
  /\ Len(SelectedFrames(load_work_items[1], sampling))
       + Len(SelectedFrames(load_work_items[2], sampling)) = 20

\* the number of work items of the first e elements of gather_points
GatherItemsBefore(e) ==
  SumSeq([i \in 1 .. e |->
            CeilDiv(Len(pipeline_description.gather_points[i].frames),
                    WORK_ITEM_SIZE)])

IntervalRows(interval) == interval.end - interval.start

\* the work items one SequenceSamples is planned as
SequenceItems(samples) ==
  SumSeq([i \in 1 .. Len(samples.intervals) |->
            CeilDiv(IntervalRows(samples.intervals[i]), WORK_ITEM_SIZE)])

\* the number of work items planned before interval i of element e of
\* gather_sequences
SeqItemsBefore(e, i) ==
  LET gather_sequences == pipeline_description.gather_sequences
  IN SumSeq([j \in 1 .. e |-> SequenceItems(gather_sequences[j])])
       + SumSeq([j \in 1 .. i |->
                   CeilDiv(IntervalRows(
                             At(gather_sequences, e).intervals[j]),
                           WORK_ITEM_SIZE)])

\* the number of output rows of the intervals before interval i of element
\* e of gather_sequences
SeqRowsBefore(e, i) ==
  SumSeq([j \in 1 .. i |->
            IntervalRows(At(pipeline_description.gather_sequences, e)
                           .intervals[j])])

\* C13: under sampling SequenceGather the work items of interval [a, b) of
\* a per-video interval list are, in order, chunk k = [a + k * W,
\* min(a + k * W + W, b)), as All would split it; item_id is the number of
\* output rows of the list before the chunk; next_item_id is -1 for the
\* last item of every fully planned interval and item_id + chunk size for
\* every other item.
C13_SequenceGatherChunks ==
  sampling = "SequenceGather" =>
    LET gather_sequences == pipeline_description.gather_sequences
        W == WORK_ITEM_SIZE
    IN /\ Len(load_work_items) = Len(work_items)
       /\ plan.done =>
            Len(work_items) = SeqItemsBefore(Len(gather_sequences), 0)
       /\ \A e \in 0 .. Len(gather_sequences) - 1 :
            \A i \in 0 .. Len(At(gather_sequences, e).intervals) - 1 :
              LET samples == At(gather_sequences, e)
                  interval == At(samples.intervals, i)
                  n == IntervalRows(interval)
                  base == SeqItemsBefore(e, i)
                  rows == SeqRowsBefore(e, i)
                  complete ==
                    \/ plan.done
                    \/ plan.sample > e
                    \/ plan.sample = e /\ plan.interval > i
                  current == ~plan.done /\ plan.sample = e
                             /\ plan.interval = i
                  count == IF complete THEN CeilDiv(n, W)
                           ELSE IF current THEN Len(work_items) - base
                           ELSE 0
              IN /\ count >= 0 /\ count <= CeilDiv(n, W)
                 /\ (complete \/ current) =>
                      base + count <= Len(work_items)
                 /\ \A k \in 0 .. count - 1 :
                      LET item == work_items[base + k + 1]
                          load_item == load_work_items[base + k + 1]
                          chunk_size == Min(W, n - k * W)
                          last == k = CeilDiv(n, W) - 1
                      IN /\ item.video_index = samples.video_index
                         /\ chunk_size >= 1
                         /\ item.item_id = rows + k * W
                         /\ item.next_item_id =
                              IF complete /\ last THEN -1
                              ELSE item.item_id + chunk_size
                         /\ load_item.work_item_index = base + k
                         /\ load_item.gather_sequences =
                              <<[start |-> interval.start + k * W,
                                 end |-> interval.start + k * W
                                           + chunk_size]>>

\* C13 witness: a fully planned list of two intervals, the first of which
\* is split into more than one item; only the last item of each interval
\* has next_item_id = -1.
C13_Witness ==
  /\ plan.done /\ sampling = "SequenceGather"
  /\ Len(pipeline_description.gather_sequences) = 1
  /\ Len(pipeline_description.gather_sequences[1].intervals) = 2
  /\ Len(work_items) >= 3
  /\ work_items[1].next_item_id # -1
  /\ work_items[2].next_item_id = -1
  /\ work_items[Len(work_items)].next_item_id = -1
  /\ work_items[Len(work_items)].item_id > 0

\* the rows <<video, frame>> of a list of frames of one video
RowsOfVideo(v, frames) == [k \in 1 .. Len(frames) |-> <<v, frames[k]>>]

\* The sampled frame sequence of the job, from the sampling specification
\* alone: every frame of every video (All), every stride-th frame of every
\* video (Strided), the frame lists (Gather) or the frames of the intervals
\* (SequenceGather) in the order given.
SampledSequence ==
  CASE sampling = "All" ->
         Concat([v \in 1 .. Len(video_frames) |->
                   RowsOfVideo(v - 1, [f \in 1 .. video_frames[v] |-> f - 1])])
    [] sampling = "Strided" ->
         Concat([v \in 1 .. Len(video_frames) |->
                   RowsOfVideo(
                     v - 1,
                     [r \in 1 .. CeilDiv(video_frames[v],
                                         pipeline_description.stride) |->
                        (r - 1) * pipeline_description.stride])])
    [] sampling = "Gather" ->
         Concat([e \in 1 .. Len(pipeline_description.gather_points) |->
                   RowsOfVideo(
                     pipeline_description.gather_points[e].video_index,
                     pipeline_description.gather_points[e].frames)])
    [] sampling = "SequenceGather" ->
         Concat([e \in 1 .. Len(pipeline_description.gather_sequences) |->
                   LET samples == pipeline_description.gather_sequences[e]
                   IN RowsOfVideo(
                        samples.video_index,
                        Concat([i \in 1 .. Len(samples.intervals) |->
                                  [f \in 1 .. IntervalRows(
                                                samples.intervals[i]) |->
                                     samples.intervals[i].start + f - 1]]))])

\* the rows the load entries select, consumed in order
PlannedSequence ==
  Concat([i \in 1 .. Len(load_work_items) |->
            RowsOfVideo(work_items[i].video_index,
                        SelectedFrames(load_work_items[i], sampling))])

\* C14: for every sampling variant load_work_items and work_items have the
\* same length, entry i has work_item_index = i, and once the planner is
\* done the frames the load entries select, concatenated in order, are the
\* sampled frame sequence.
C14_LoadEntriesReproduceSampling ==
  /\ Len(load_work_items) = Len(work_items)
  /\ \A i \in 0 .. Len(load_work_items) - 1 :
       At(load_work_items, i).work_item_index = i
  /\ plan.done => PlannedSequence = SampledSequence

\* C14 witness: a finished Strided plan of two videos with several items,
\* one of them with a last chunk that is not a multiple of the stride.
C14_Witness ==
  /\ plan.done /\ sampling = "Strided"
  /\ pipeline_description.stride = 2
  /\ Len(video_frames) = 2
  /\ video_frames[2] = 5
  /\ Len(work_items) >= 3
  /\ Len(PlannedSequence) >= 4

\* the number of output rows of the video of work item i (0-based) that the
\* items planned before it select
RowsPreceding(i) ==
  SumSeq([j \in 1 .. i |->
            IF work_items[j].video_index = At(work_items, i).video_index
            THEN Len(SelectedFrames(load_work_items[j], sampling))
            ELSE 0])

\* every video has at most one element of gather_points and of
\* gather_sequences, so that its sampled sequence is that one list
OneListPerVideo ==
  /\ \A a, b \in 1 .. Len(pipeline_description.gather_points) :
       a # b => pipeline_description.gather_points[a].video_index
                  # pipeline_description.gather_points[b].video_index
  /\ \A a, b \in 1 .. Len(pipeline_description.gather_sequences) :
       a # b => pipeline_description.gather_sequences[a].video_index
                  # pipeline_description.gather_sequences[b].video_index

\* C15: for every sampling variant, rows_from_start of every work item is
\* the number of output rows of its video's sampled sequence that precede
\* the item (stated for jobs that sample every video through one list).
C15_RowsFromStartCountsPrecedingRows ==
  OneListPerVideo =>
    \A i \in 0 .. Len(work_items) - 1 :
      At(work_items, i).rows_from_start = RowsPreceding(i)

\* ------------------------------------------------------------------------
\* Probes of the observed runs
\* ------------------------------------------------------------------------
JobDone == \A n \in Nodes : pc[n] = "done"

\* `eval_thread` (n, pu, fg) takes an entry and evaluates it in this step
EvaluatesNow(n, pu, fg) ==
  /\ eval_thread[n][pu][fg].st = "pop"
  /\ eval_thread'[n][pu][fg].st = "push"

\* work item i is the first item of an interval of a SequenceGather job
FirstOfInterval(i) == i = 0 \/ At(work_items, i - 1).next_item_id = -1

\* the job is that of scenario S4
IsS4 ==
  /\ sampling = "SequenceGather"
  /\ WORK_ITEM_SIZE = 10
  /\ pipeline_description.gather_sequences =
       <<[video_index |-> 0,
          intervals |-> <<[start |-> 0, end |-> 10],
                          [start |-> 50, end |-> 60]>>]>>

\* C16: in a SequenceGather job every evaluator thread resets its evaluators
\* when it takes the first item of an interval, and configures them only
\* when the video differs from the video of the item it took before; when
\* the job of scenario S4 is done on one chain, every thread of the chain
\* has configured once and reset twice.
C16_ResetAtEveryInterval ==
  [][/\ \A n \in Nodes : \A pu \in PUs : \A fg \in Groups :
          EvaluatesNow(n, pu, fg) =>
            LET i == eval_thread'[n][pu][fg].entry.work_item_index
            IN /\ (sampling = "SequenceGather" /\ FirstOfInterval(i)) =>
                    reset_calls'[n][pu][fg] = reset_calls[n][pu][fg] + 1
               /\ configure_calls'[n][pu][fg] # configure_calls[n][pu][fg] =>
                    At(work_items, i).video_index
                      # eval_thread[n][pu][fg].last_video_index
     /\ (IsS4 /\ PUS_PER_NODE = 1 /\ JobDone') =>
          \A fg \in Groups :
            /\ configure_calls'[0][0][fg] = 1
            /\ reset_calls'[0][0][fg] = 2]_vars

\* the rows of all output files, in work item order, and the rows the last
\* factory group released as warmup rows
SavedRows == Concat([i \in 1 .. Len(work_items) |-> saved[i - 1]])

ReleasedRows == Concat([i \in 1 .. Len(work_items) |-> released[i - 1]])

\* the job is that of scenario S5
IsS5 ==
  /\ sampling = "All"
  /\ video_frames = <<40>>
  /\ WORK_ITEM_SIZE = 16
  /\ warmup_size = 8

\* C17: when the job of scenario S5 (warmup 8, All over 40 frames, W = 16)
\* is done on a single chain, the output files hold exactly rows 8..39, and
\* rows 0..7 were released by the last factory group.
C17_WarmupRowsNotSaved ==
  (IsS5 /\ PUS_PER_NODE = 1 /\ JobDone) =>
    /\ SavedRows = [k \in 1 .. 32 |-> k + 7]
    /\ ReleasedRows = [k \in 1 .. 8 |-> k - 1]

\* C18: when a job with sampling All or SequenceGather is done, the number
\* of rows in all output files is the number of sampled frames minus the
\* number of rows the last factory group released as warmup rows, and the
\* released and saved rows of every work item are, in this order, the rows
\* of the item's sampling slice: no row is lost or duplicated elsewhere.
C18_RowsConserved ==
  (sampling \in {"All", "SequenceGather"} /\ JobDone) =>
    /\ Len(SavedRows) = Len(SampledSequence) - Len(ReleasedRows)
    /\ \A i \in 0 .. Len(work_items) - 1 :
         released[i] \o saved[i]
           = SelectedFrames(At(load_work_items, i), sampling)

\* rows are the last rows of slice, in the order of slice
IsTailOf(rows, slice) ==
  /\ Len(rows) <= Len(slice)
  /\ rows = SubSeq(slice, Len(slice) - Len(rows) + 1, Len(slice))

Allocated(device) ==
  new_buffer_calls[device]
    + (IF device = <<"CPU", 0>> THEN raw_new_calls ELSE 0)

\* C20: when the job is done, on every device as many buffers have been
\* deleted with delete_buffer as have been allocated (the load workers'
\* allocations counted as allocations in CPU memory of device 0).
C20_BuffersBalanced ==
  JobDone =>
    \A device \in Devices : Allocated(device) = delete_buffer_calls[device]

\* the entries that have left a load worker of node n and not yet entered
\* an evaluator
LoadedEntries(n) ==
  {load_thread[n][i].entry : i \in LoadWorkers}
    \cup {initial_eval_work[n][k] : k \in 1 .. Len(initial_eval_work[n])}

\* the keyframe bracket of the frames [s, e) of a video: k1 is the largest
\* index whose keyframe position is at most s, k2 the smallest index above
\* k1 whose position is at least e
Bracket(s, e, keyframe_positions) ==
  LET k1 == CHOOSE k \in 0 .. Len(keyframe_positions) - 1 :
              /\ At(keyframe_positions, k) <= s
              /\ \A j \in k + 1 .. Len(keyframe_positions) - 1 :
                   At(keyframe_positions, j) > s
      k2 == CHOOSE k \in k1 + 1 .. Len(keyframe_positions) - 1 :
              /\ At(keyframe_positions, k) >= e
              /\ \A j \in k1 + 1 .. k - 1 : At(keyframe_positions, j) < e
  IN [k1 |-> k1, k2 |-> k2]

\* C21: for every read interval [s, e) of an entry a load worker has built,
\* the encoded buffer holds the bytes from the byte offset of keyframe k1 to
\* the byte offset of keyframe k2, and the decode-argument record carries
\* the positions of these two keyframes, where k1 is the last keyframe at or
\* before s and k2 the first keyframe after k1 at or after e (the frame
\* count and the file size standing for the keyframe after the last).
C21_KeyframeBracket ==
  \A n \in Nodes : \A entry \in LoadedEntries(n) :
    \A r \in 1 .. Len(entry.buffers) :
      LET row == entry.buffers[r]
          interval == ReadInterval(row)
          video_index == At(work_items, entry.work_item_index).video_index
          positions == KeyframePositions(video_index)
          offsets == KeyframeByteOffsets(video_index)
          k == Bracket(interval.start, interval.end, positions)
      IN /\ 0 <= interval.start /\ interval.start < interval.end
         /\ interval.end <= At(video_frames, video_index)
         /\ row.video = [begin |-> At(offsets, k.k1), end |-> At(offsets, k.k2)]
         /\ row.start_keyframe = At(positions, k.k1)
         /\ row.end_keyframe = At(positions, k.k2)

\* C21 witness: a load worker holds the entry of frames [1, 3) of a video of
\* four frames with keyframes 0, 1 and 3: the bytes read start at keyframe 1
\* and end at keyframe 3, which is not the end of the file.
C21_Witness ==
  /\ sampling = "SequenceGather"
  /\ video_metadata[1].keyframe_positions = <<0, 1, 3>>
  /\ video_metadata[1].keyframe_byte_offsets = <<0, 2, 3>>
  /\ load_thread[0][0].st = "push"
  /\ load_thread[0][0].entry.buffers[1].gather_sequences
       = <<[start |-> 1, end |-> 3]>>
  /\ load_thread[0][0].entry.buffers[1].video = [begin |-> 2, end |-> 3]
  /\ load_thread[0][0].entry.buffers[1].start_keyframe = 1
  /\ load_thread[0][0].entry.buffers[1].end_keyframe = 3

\* the work items whose output files have been written, over all nodes
RetiredItems == SumSeq([i \in 1 .. num_nodes |-> retired_items[i - 1]])

\* C22: the job is in the database metadata and its descriptor is written
\* only when the output files of every planned work item have been saved,
\* on whichever node the item was processed.
C22_RegisteredAfterAllSaved ==
  job_registered => RetiredItems = Len(work_items)

\* C23: when an evaluator thread takes an entry (of any sampling), it
\* configures exactly if the item's video differs from the video it tracks,
\* it resets exactly if it configures or the item's item_id differs from the
\* next_item_id it tracks, and afterwards it tracks the item's video_index
\* and next_item_id; the first entry of a thread causes both calls.
C23_ConfigureResetPolicy ==
  [][\A n \in Nodes : \A pu \in PUs : \A fg \in Groups :
       EvaluatesNow(n, pu, fg) =>
         LET thread == eval_thread[n][pu][fg]
             after == eval_thread'[n][pu][fg]
             work_item == At(work_items, after.entry.work_item_index)
             configures ==
               configure_calls'[n][pu][fg] - configure_calls[n][pu][fg]
             resets == reset_calls'[n][pu][fg] - reset_calls[n][pu][fg]
             needs_configure ==
               work_item.video_index # thread.last_video_index
             needs_reset ==
               needs_configure \/ work_item.item_id # thread.last_next_item_id
         IN /\ configures = IF needs_configure THEN 1 ELSE 0
            /\ resets = IF needs_reset THEN 1 ELSE 0
            /\ after.last_video_index = work_item.video_index
            /\ after.last_next_item_id = work_item.next_item_id
            /\ reset_calls[n][pu][fg] = 0 => configures = 1 /\ resets = 1]_vars

\* C23 witness: on one chain, All over one video in two work items: the
\* thread has taken item 1 after item 0 and has configured and reset once.
C23_Witness ==
  /\ sampling = "All" /\ Len(video_frames) = 1 /\ PUS_PER_NODE = 1
  /\ eval_thread[0][0][0].st = "push"
  /\ eval_thread[0][0][0].entry.work_item_index = 1
  /\ At(work_items, 1).item_id = At(work_items, 0).next_item_id
  /\ eval_thread[0][0][0].last_next_item_id = At(work_items, 1).next_item_id
  /\ configure_calls[0][0][0] = 1
  /\ reset_calls[0][0][0] = 1

\* ------------------------------------------------------------------------
\* C24. Warmup rows are released only by the thread of the last factory
\* group, and only for an entry that made the thread reset its evaluators:
\* of a batch that begins at row current_input the first
\* min(batch_size, max(0, min(warmup_count, rows_from_start) - current_input))
\* rows, so that of all the rows the thread produces for the entry it drops
\* the first min(warmup_count, rows_from_start, rows produced) and keeps
\* the rest; any other thread, and any entry without a reset, drops none.
\* ------------------------------------------------------------------------
C24_WarmupRelease ==
  [][\A n \in Nodes : \A pu \in PUs : \A fg \in Groups :
       EvaluatesNow(n, pu, fg) =>
         LET work_entry == Head(EvalInput(n, pu, fg))
             item == work_entry.work_item_index
             work_item == At(work_items, item)
             dropped == Len(released'[item]) - Len(released[item])
             produced == dropped + Len(eval_thread'[n][pu][fg].entry.buffers)
             resets == reset_calls'[n][pu][fg] - reset_calls[n][pu][fg]
             total_warmup_frames ==
               IF last_evaluator_group(fg) /\ resets = 1
               THEN Min(warmup_size, work_item.rows_from_start)
               ELSE 0
         IN /\ dropped = Min(total_warmup_frames, produced)
            /\ \A b \in batches' \ batches :
                 b.warmup_frames =
                   Min(b.batch_size,
                       Max(0, total_warmup_frames - b.current_input))]_vars

\* the last group of a chain has reset for an entry that it cut into two
\* batches, and has released warmup rows of the first batch only
C24_Witness ==
  /\ factory_groups_per_chain = 2
  /\ \E item \in DOMAIN released : Len(released[item]) = 1
  /\ \E a, b \in batches :
       /\ a.total_inputs = b.total_inputs
       /\ a.trim = 1 /\ b.trim = 1
       /\ a.current_input = 0 /\ a.warmup_frames = 1
       /\ b.current_input > 0 /\ b.warmup_frames = 0

\* ------------------------------------------------------------------------
\* C25. Every batch an evaluator thread cuts from an entry is a slice
\* [current_input, current_input + batch_size) of rows the entry has: it
\* begins at or after row 0 and ends at or before row total_inputs, also
\* when the entry holds more than WORK_ITEM_SIZE rows or a number of rows
\* that is no multiple of WORK_ITEM_SIZE.
\* ------------------------------------------------------------------------
C25_SlicesInsideEntry ==
  \A b \in batches :
    /\ 0 <= b.current_input
    /\ b.current_input + b.taken <= b.total_inputs

\* ------------------------------------------------------------------------
\* C26. An evaluator that returns a number of output columns other than the
\* number its factory declares is caught by the validation of the evaluator
\* thread and ends the job: no thread goes on to push an output entry for
\* an entry that such an evaluator has evaluated.
\* ------------------------------------------------------------------------
C26_WrongColumnCountIsFatal ==
  \A n \in Nodes : \A pu \in PUs : \A fg \in Groups :
    eval_thread[n][pu][fg].st = "push" =>
      \A e \in DOMAIN factory_groups[fg + 1] :
        OutputBuffers(factory_groups[fg + 1][e].behaviour)
          = num_evaluator_outputs

\* ------------------------------------------------------------------------
\* C27. When a thread takes an entry, an evaluator of its group that returns
\* a column of other than batch_size rows ends the job, unless it is the
\* first evaluator of the group and the entry is a video_decode_item: of
\* that evaluator any number of rows is accepted and becomes batch_size.
\* Only the first group meets such entries, for every entry a thread
\* emits has video_decode_item = false.
\* ------------------------------------------------------------------------
C27_RowCountValidation ==
  [][\A n \in Nodes : \A pu \in PUs : \A fg \in Groups :
       (/\ eval_thread[n][pu][fg].st = "pop"
        /\ eval_thread'[n][pu][fg].st \in {"push", "fatal"}) =>
         LET work_entry == Head(EvalInput(n, pu, fg))
             group == factory_groups[fg + 1]
             exempt(e) == e = 1 /\ work_entry.video_decode_item
             wrong_rows ==
               {e \in DOMAIN group :
                  ~exempt(e) /\ group[e].behaviour = "extra_row"}
             wrong_columns ==
               {e \in DOMAIN group : group[e].behaviour = "sizes_short"}
         IN /\ wrong_rows # {} => eval_thread'[n][pu][fg].st = "fatal"
            /\ wrong_rows = {} /\ wrong_columns = {} =>
                 /\ eval_thread'[n][pu][fg].st = "push"
                 /\ ~eval_thread'[n][pu][fg].entry.video_decode_item
                 /\ \A b \in batches' \ batches :
                      b.batch_size =
                        IF work_entry.video_decode_item
                        THEN Len(Evaluate(work_entry.buffers, TRUE,
                                          group[1].behaviour))
                        ELSE b.taken
            /\ work_entry.video_decode_item => first_evaluator_group(fg)]_vars

\* the extra row of the decoding evaluator has been taken as batch_size in
\* the first group, and the thread of the second group has ended the job
\* over the extra row of its first evaluator
C27_Witness ==
  /\ factory_groups = <<<<ExtraRow, CPU>>, <<ExtraRow>>>>
  /\ \E b \in batches : b.taken = 1 /\ b.batch_size = WORK_ITEM_SIZE + 1
  /\ eval_thread[0][0][1].st = "fatal"

\* ------------------------------------------------------------------------
\* C28. Whatever the length of the chain of evaluators and whatever their
\* can_overlap flags, run_job derives one to three factory groups, none of
\* them empty, which put end to end are the chain; the first evaluator is
\* a group of its own exactly if it can overlap, and so is the last.
\* ------------------------------------------------------------------------
C28_GroupsPartitionChain ==
  /\ setup # "aborted"
  /\ setup \in {"create", "threads"} =>
       LET size == Len(evaluator_caps)
           groups == Len(factory_groups)
       IN /\ groups \in 1 .. 3
          /\ \A fg \in 1 .. groups : factory_groups[fg] # <<>>
          /\ Concat(factory_groups) = evaluator_caps
          /\ factory_groups[1] = <<evaluator_caps[1]>>
               <=> evaluator_caps[1].can_overlap
          /\ factory_groups[groups] = <<evaluator_caps[size]>>
               <=> evaluator_caps[size].can_overlap

\* ------------------------------------------------------------------------
\* C29. Every delete_buffer call names the device the buffer was allocated
\* on, on every processing unit: the delete of an original in a migration,
\* the delete of the inputs after evaluate(), the delete of the warmup rows,
\* the delete of the rows copied to CPU memory, and the delete of the rows
\* of an entry in the save thread.
\* ------------------------------------------------------------------------
C29_DeleteOnAllocationDevice ==
  [][/\ \A c \in evaluate_calls' :
          c.num_buffers > 0 =>
            /\ NeedsMigration(c.tag, c.device) => c.tag = c.originals_on
            /\ c.device = c.inputs_on
     /\ \A b \in batches' :
          /\ b.warmup_frames > 0 => b.warmup_released_on = b.outputs_on
          /\ b.normalised > 0 => b.normalised_from = b.outputs_on
     /\ \A n \in Nodes : \A i \in SaveWorkers :
          (/\ save_thread[n][i].st = "push"
           /\ save_thread'[n][i].st # "push"
           /\ save_thread[n][i].entry.buffers # <<>>) =>
            <<"CPU", save_thread[n][i].entry.buffer_device_id>>
              = save_thread[n][i].entry.buffers_on]_vars

\* ------------------------------------------------------------------------
\* C30. Whenever evaluate() is called, the input buffers are on the device
\* of the evaluator: if the tag of the input names another device, every
\* input buffer has been copied into a new buffer on the evaluator's device
\* and its original released once, the copies in the places of the
\* originals; if it names the evaluator's device, nothing is copied.
\* ------------------------------------------------------------------------
C30_InputsOnEvaluatorDevice ==
  \A c \in evaluate_calls :
    c.num_buffers > 0 =>
      /\ c.inputs_on = c.device
      /\ IF c.tag # c.device
         THEN /\ c.copies = c.num_buffers
              /\ c.originals_released = c.num_buffers
              /\ c.order_kept
         ELSE c.copies = 0 /\ c.originals_released = 0

\* evaluate() has been called on the GPU of the second processing unit for
\* rows that came tagged as CPU memory of device 0, and on the CPU evaluator
\* that heads the second group there, for rows that had been copied back
C30_Witness ==
  /\ \E c \in evaluate_calls :
       /\ c.tag = <<"CPU", 0>> /\ c.device = <<"GPU", 1>>
       /\ c.copies > 0
  /\ \E c \in evaluate_calls :
       /\ c.tag = <<"CPU", 0>> /\ c.device = <<"CPU", 1>>
       /\ c.copies > 0

\* ------------------------------------------------------------------------
\* C31. Every entry an evaluator thread pushes downstream is tagged
\* buffer_type = CPU and holds only buffers that are in CPU memory, whatever
\* the devices of the evaluators of its group.
\* ------------------------------------------------------------------------
C31_PushedEntriesInCPUMemory ==
  \A n \in Nodes :
    /\ \A pu \in PUs : \A fg \in Groups :
         eval_thread[n][pu][fg].st = "push" =>
           /\ eval_thread[n][pu][fg].entry.buffer_type = "CPU"
           /\ eval_thread[n][pu][fg].entry.buffers_on[1] = "CPU"
    /\ \A pu \in PUs : \A fg \in 0 .. factory_groups_per_chain - 2 :
         \A k \in 1 .. Len(eval_work[n][pu][fg]) :
           /\ eval_work[n][pu][fg][k].buffer_type = "CPU"
           /\ eval_work[n][pu][fg][k].buffers_on[1] = "CPU"
    /\ \A k \in 1 .. Len(save_work[n]) :
         /\ save_work[n][k].buffer_type = "CPU"
         /\ save_work[n][k].buffers_on[1] = "CPU"

\* a thread whose only evaluator runs on a GPU holds the rows of an entry
\* to push
C31_Witness ==
  /\ factory_groups = <<<<GPU>>>>
  /\ eval_thread[0][0][0].st = "push"
  /\ eval_thread[0][0][0].entry.buffers # <<>>

\* ------------------------------------------------------------------------
\* C32. The entry a load worker builds has two columns, every row of it
\* holding both its encoded buffer and its decode-argument record (as many
\* buffers in one column as in the other), it is a video_decode_item in CPU
\* memory, and it carries the work_item_index of the load entry it was built
\* from; every evaluator thread gives its output entry the work_item_index
\* of the entry it took, and the save worker holds the entry it popped.
\* ------------------------------------------------------------------------
C32_LoadedEntryShape ==
  [][\A n \in Nodes :
       /\ \A i \in LoadWorkers :
            (load_thread[n][i].st = "pop" /\ load_thread'[n][i].st = "push")
              => LET eval_work_entry == load_thread'[n][i].entry
                 IN /\ eval_work_entry.columns = 2
                    /\ \A k \in 1 .. Len(eval_work_entry.buffers) :
                         {"sampling", "video"}
                           \subseteq DOMAIN eval_work_entry.buffers[k]
                    /\ eval_work_entry.video_decode_item
                    /\ eval_work_entry.buffer_type = "CPU"
                    /\ eval_work_entry.work_item_index
                         = Head(load_work[n]).work_item_index
       /\ \A pu \in PUs : \A fg \in Groups :
            EvaluatesNow(n, pu, fg)
              => eval_thread'[n][pu][fg].entry.work_item_index
                   = Head(EvalInput(n, pu, fg)).work_item_index
       /\ \A i \in SaveWorkers :
            (save_thread[n][i].st = "pop" /\ save_thread'[n][i].st = "push")
              => save_thread'[n][i].entry.work_item_index
                   = Head(save_work[n]).work_item_index]_vars

\* a save worker holds the entry of the first item of a Gather job; the
\* entry went through two factory groups and its load entry had two points
C32_Witness ==
  /\ sampling = "Gather"
  /\ factory_groups_per_chain = 2
  /\ \E i \in SaveWorkers :
       /\ save_thread[0][i].st = "push"
       /\ save_thread[0][i].entry.work_item_index = 0
       /\ Len(At(load_work_items, 0).gather_points) = 2

\* ------------------------------------------------------------------------
\* C33. When a load worker takes an entry, the asserts of
\* find_keyframe_indices hold for every interval [s, e) of the entry with
\* 0 <= s < e <= frame count and the worker goes on to push the loaded
\* entry; an entry with an interval outside that range ends the process.
\* ------------------------------------------------------------------------
InsideVideo(interval, video_index) ==
  /\ 0 <= interval.start
  /\ interval.start < interval.end
  /\ interval.end <= At(video_frames, video_index)

C33_BracketSearch ==
  [][\A n \in Nodes : \A i \in LoadWorkers :
       (/\ load_thread[n][i].st = "pop"
        /\ load_thread'[n][i].st \in {"push", "fatal"})
         => LET load_work_entry == Head(load_work[n])
                intervals == LoadIntervals(load_work_entry, sampling)
                video_index ==
                  At(work_items, load_work_entry.work_item_index).video_index
                inside == \A k \in 1 .. Len(intervals) :
                            InsideVideo(intervals[k], video_index)
            IN /\ inside => load_thread'[n][i].st = "push"
               /\ ~inside => load_thread'[n][i].st = "fatal"]_vars

\* ------------------------------------------------------------------------
\* C34. A save worker that writes an entry whose output columns are all as
\* long as column 0 makes, for every output column, one file at the path of
\* (video, column, work_item_index) that holds as many sizes as the entry
\* has rows and then the rows in the order of the entry; it ends the process
\* exactly when a column has another length than column 0; and no two files
\* made in the cluster have the same path.
\* ------------------------------------------------------------------------
AllFiles ==
  {<<i, k>> \in (0 .. Len(work_items) - 1) \X (1 .. 2 * num_output_names) :
     k <= Len(files[i])}

C34_OutputFiles ==
  /\ [](\A f, g \in AllFiles :
          files[f[1]][f[2]].path = files[g[1]][g[2]].path => f = g)
  /\ [][\A n \in Nodes : \A i \in SaveWorkers :
          (save_thread[n][i].st = "push" /\ save_thread'[n][i].st # "push")
            => LET work_entry == save_thread[n][i].entry
                   item == work_entry.work_item_index
                   ragged ==
                     \E c \in 1 .. num_output_names :
                       work_entry.column_rows[c] # work_entry.column_rows[1]
               IN /\ ragged <=> save_thread'[n][i].st = "fatal"
                  /\ ~ragged =>
                       files'[item] =
                         files[item]
                           \o [c \in 1 .. num_output_names |->
                                [path |->
                                   [video |->
                                      At(work_items, item).video_index,
                                    column |-> c - 1,
                                    work_item_index |-> item],
                                 node |-> n,
                                 sizes |-> Len(work_entry.buffers),
                                 payloads |-> work_entry.buffers,
                                 saved |-> TRUE]]]_vars

\* the two work items of a job were written by different nodes
C34_Witness ==
  /\ Len(work_items) = 2
  /\ files[0] # <<>>
  /\ files[1] # <<>>
  /\ files[0][1].saved /\ files[1][1].saved
  /\ files[0][1].node # files[1][1].node

\* ------------------------------------------------------------------------
\* C35. retired_items of a node never exceeds its accepted_items and never
\* decreases; it grows by one exactly in the steps in which a save worker
\* of the node, holding an entry it popped, has written and saved the file
\* of every output column of the entry and released its buffers, and so
\* never when a save worker pops a sentinel.
\* ------------------------------------------------------------------------
RetiresEntry(n, i) ==
  /\ save_thread[n][i].st = "push"
  /\ save_thread'[n][i].st = "pop"
  /\ LET item == save_thread[n][i].entry.work_item_index
     IN /\ Len(files'[item]) = Len(files[item]) + num_output_names
        /\ \A k \in Len(files[item]) + 1 .. Len(files'[item]) :
             files'[item][k].saved
        /\ \E d \in Devices :
             delete_buffer_calls'[d]
               = delete_buffer_calls[d]
                   + num_output_names
                       * Len(save_thread[n][i].entry.buffers)

C35_RetiredCounts ==
  /\ [](\A n \in Nodes : retired_items[n] <= accepted_items[n])
  /\ [][\A n \in Nodes :
          /\ retired_items'[n] \in {retired_items[n], retired_items[n] + 1}
          /\ retired_items'[n] = retired_items[n] + 1
               <=> \E i \in SaveWorkers : RetiresEntry(n, i)]_vars

\* ------------------------------------------------------------------------
\* C36. A node whose driver is through its shutdown sequence has retired
\* every item it accepted; once all drivers are through it, the nodes have
\* accepted as many items as were planned, and every planned work item was
\* handled on one node by a load worker, then once by the evaluate thread
\* of every factory group in group order, then by a save worker, which
\* wrote the file of every output column once.
\* ------------------------------------------------------------------------
AcceptedItems == SumSeq([i \in 1 .. num_nodes |-> accepted_items[i - 1]])

C36_EveryItemOnce ==
  /\ \A n \in Nodes : pc[n] = "done" => retired_items[n] = accepted_items[n]
  /\ (\A n \in Nodes : pc[n] = "done") =>
       /\ AcceptedItems = Len(work_items)
       /\ \A item \in 0 .. Len(work_items) - 1 : \E n \in Nodes :
            /\ [k \in 1 .. Len(stages[item]) |->
                  [stage |-> stages[item][k].stage,
                   group |-> stages[item][k].group,
                   node |-> stages[item][k].node]] =
                 <<[stage |-> "load", group |-> 0, node |-> n]>>
                   \o [g \in 1 .. factory_groups_per_chain |->
                        [stage |-> "evaluate", group |-> g - 1, node |-> n]]
                   \o <<[stage |-> "save", group |-> 0, node |-> n]>>
            /\ Len(files[item]) = num_output_names
            /\ \A k \in 1 .. Len(files[item]) :
                 files[item][k].node = n /\ files[item][k].saved

\* both nodes of a cluster are through their shutdown sequences, each
\* having saved one of the two work items through a chain of two groups
C36_Witness ==
  /\ num_nodes = 2
  /\ factory_groups_per_chain = 2
  /\ \A n \in Nodes : pc[n] = "done"
  /\ accepted_items[0] = 1
  /\ accepted_items[1] = 1

\* what the evaluate threads decided for a work item, in the order in which
\* they handled it
EvaluateStages(item) ==
  SelectSeq(stages[item], LAMBDA handled : handled.stage = "evaluate")

\* C37: every factory group that handles an entry belongs to the chain of
\* one processing unit, the groups handle it in chain order, and each of
\* them computes the needs_configure and the needs_reset that the first
\* group of the chain computed; the last group discards warmup frames
\* exactly when the first group reset, and then min(warmup_size,
\* rows_from_start) of them
C37_ChainSharesPolicy ==
  \A item \in DOMAIN stages :
    LET handled == EvaluateStages(item)
    IN \A k \in 1 .. Len(handled) :
         /\ handled[k].group = k - 1
         /\ handled[k].decision.pu = handled[1].decision.pu
         /\ handled[k].decision.needs_configure =
              handled[1].decision.needs_configure
         /\ handled[k].decision.needs_reset =
              handled[1].decision.needs_reset
         /\ handled[k].decision.total_warmup_frames =
              IF last_evaluator_group(handled[k].group)
                   /\ handled[1].decision.needs_reset
              THEN Min(warmup_size, At(work_items, item).rows_from_start)
              ELSE 0

\* two processing units with chains of two groups have each passed work
\* items through their last group: one item whose warmup frames were
\* discarded after a reset of the first group, and another on which no
\* group reset
C37_Witness ==
  /\ PUS_PER_NODE = 2
  /\ factory_groups_per_chain = 2
  /\ \E reset, kept \in DOMAIN stages :
       /\ Len(EvaluateStages(reset)) = 2
       /\ Len(EvaluateStages(kept)) = 2
       /\ EvaluateStages(reset)[1].decision.needs_reset
       /\ EvaluateStages(reset)[2].decision.total_warmup_frames > 0
       /\ ~EvaluateStages(kept)[1].decision.needs_reset
       /\ \E other \in DOMAIN stages :
            /\ Len(EvaluateStages(other)) = 2
            /\ EvaluateStages(other)[1].decision.pu #
                 EvaluateStages(reset)[1].decision.pu
====
